---------------------------- MODULE Spec2Model ----------------------------
(***************************************************************************)
(* Job supervision and cancellation in the subtitle generator.             *)
(*                                                                         *)
(*   Spec     the web server's job supervisor (server.js): the two job     *)
(*            lists, the /api/start and /api/translate loops, the upload   *)
(*            endpoints, the child-process events, the WebSocket control   *)
(*            messages and process-tree termination.                       *)
(*   SpecCli  the command-line pipeline (gensrt-cli.js, printed in         *)
(*            README.md, and gensrt.js): one decoder per file, chunk       *)
(*            windowing, finalisation, SIGINT/SIGTERM handling.            *)
(***************************************************************************)
EXTENDS Integers, Sequences, FiniteSets, TLC

\* ------------------------------------------------------------------ bounds
\* file names a request may carry (media files for transcription, .srt files
\* for translation; the two name spaces never mix)
Names == {"a", "b"}
\* child processes the server spawns in one behaviour
MaxProcs == 2
\* HTTP requests (/api/start, /api/translate, /api/upload, /api/upload-srt)
\* in one behaviour
MaxRequests == 2

\* what fs.readdir / a single path hands to a job loop: distinct base names
FileLists == {<<"a", "b">>, <<"a">>}

\* the media files whose sibling .srt exists when a run starts
\* (fs.access(srtPath) succeeds); /api/start looks at no .srt
SrtPresent == {"b"}

Kinds == {"tr", "tl"}          \* transcription, translation

\* files one command-line run finds to process
MaxFiles == 2
\* stdout chunks one decoder delivers
MaxChunks == 2
\* stdout chunks of the file where one file is decoded alone
MaxPipeChunks == 3
\* speech regions the detector queues for one file
MaxRegions == 2
\* SIGINT / SIGTERM signals one command-line run receives
MaxSignals == 1
\* cues in one argument of mergeSegments
MaxCues == 3
\* cue times are in tenths of a second: starts and durations that give
\* overlapping cues, pauses of 0, 0.3, 0.5 and 0.6 s, and durations whose sum
\* is below, at and above 15 s
Starts == {0, 20, 23, 25, 26, 72, 144}
Durations == {10, 20, 70, 140}
\* the text recognised for a cue: "A" for the cues of 2 s and 7 s, "B" for
\* the others
TextOf(d) == IF d \in {20, 70} THEN <<"A">> ELSE <<"B">>
\* byte lengths of the stdout chunks: short of a window, one window and an
\* odd byte, two windows and an odd byte, and the largest chunk one read of
\* the pipe delivers (64 KiB)
ChunkBytes == {1000, 1025, 2049, 65536}
\* the chunk lengths used where several files and signals interleave
SmallChunks == {1000, 1025}
\* config.vad.sileroVad.windowSize
WindowSize == 512
\* config.bufferSizeInSeconds, config.vad.sampleRate
BufferSizeInSeconds == 5
SampleRate == 16000
\* new sherpa_onnx.CircularBuffer(bufferSizeInSeconds * sampleRate)
Capacity == BufferSizeInSeconds * SampleRate
\* the two programs that share the pipeline: gensrt-cli.js (signal handlers,
\* cancel flag) and gensrt.js (neither)
Scripts == {"cli", "srv"}

\* process.platform of the host: the server's spawn environment names the
\* linux build of the recogniser (server.js:96)
platform == "linux"

VARIABLES
  \* ---- server.js
  filesList,                    \* transcriptionState.filesList
  translationQueue,             \* translationState.translationQueue
  cancelAllTranscription,
  cancelAllTranslation,
  activeTranscriptionProcesses, \* keys of the Map (pid, 0 for undefined)
  activeTranslationProcesses,
  uploadedFiles,                \* Set of upload paths, <<kind, name>>
  uploadsDir,                   \* upload files present on disk
  procs,                        \* every child spawned so far
  runs,                         \* every /api/start, /api/translate call
  uploadTimers,                 \* pending setTimeout(..., 100) of uploads
  killTimers,                   \* pending setTimeout(..., 2000) SIGKILLs
  nextJid,                      \* identity of the next list entry object
  nRequests,
  lost,                         \* an entry left a list never seen terminal
  \* ---- gensrt-cli.js / gensrt.js
  script,                       \* which of the two programs runs
  cliPc,                        \* main(): "idle", "run", "sleep", "done", "exited"
  cliN,                         \* filesToProcess.length
  cliFile,                      \* index of the file main() is at
  jobs,                         \* one pipeline per processFile call
  cancelTranscription,
  activeFfmpegProcess,          \* index of the job whose decoder it holds, 0: null
  graceTimers,                  \* pending 1000 ms timers of the signal handlers
  nSignals,
  \* ---- gensrt.js, mergeSegments
  segments,                     \* the argument of the call
  merged,                       \* the array it returns
  mergePc,                      \* "idle", "call", "return", "again"
  \* ---- gensrt.js, saveSrt
  saveArg,                      \* the segments array as the caller built it
  srtContent,                   \* the string handed to fs.writeFile
  outFile,                      \* outPath on disk: <<>> absent, <<content>>
  savePc,                       \* "idle", "call", "return"
  \* ---- gensrt.js, formatTime
  timeArg,                      \* the number t
  timeOut,                      \* the string returned
  formatPc,                     \* "idle", "call", "return"
  \* ---- gensrt.js, the region loop of the close handler
  vadRegions,                   \* the detector's queue after vad.flush()
  taken,                        \* the regions dequeued so far, in order
  built,                        \* the segments array handed to saveSrt
  buildPc,                      \* "idle", "loop", "done"
  \* ---- server.js, progress parsing of transcriber.stdout
  lastProgress,                 \* the closure variable, by child
  progressLog,                  \* percents broadcast, by filename
  \* ---- model selection: modelConfig.js, gensrt.js, /api/start
  modelName,                    \* argv after --model, "null" without it
  model,                        \* the module's `let model`, "unset" at first
  exitCode,                     \* of the command-line program, -1: running
  rejected,                     \* /api/start calls answered 400
  accepted,                     \* models /api/start handed to a child
  \* ---- gensrt.js, the sample conversion of ffmpeg.stdout.on("data")
  byteStream,                   \* bytes the decoder has yet to deliver
  received,                     \* bytes delivered so far, in order
  pushedSamples,                \* samples pushed into the buffer, in order
  \* ---- gensrt.js, two runs over one input
  inputFile,                    \* the media file: directory, name, upload
  srtFiles,                     \* paths of the .srt files on disk
  runPc,                        \* "idle", "first", "second", "skipped", "again"
  \* ---- cache-optimization.js, one key of the hybrid cache
  now,                          \* Date.now(), in units of 10 s
  lruCache,                     \* the key's entry in the LRU cache
  cacheFiles,                   \* the key's file in CACHE_DIR
  lastReturn                    \* what the last read returned, and when

srvVars == <<filesList, translationQueue, cancelAllTranscription,
             cancelAllTranslation, activeTranscriptionProcesses,
             activeTranslationProcesses, uploadedFiles, uploadsDir, procs,
             runs, uploadTimers, killTimers, nextJid, nRequests, lost>>

cliVars == <<script, cliPc, cliN, cliFile, jobs, cancelTranscription,
             activeFfmpegProcess, graceTimers, nSignals>>

\* a call of mergeSegments: its argument, its return value, and whether it
\* has returned
mergeVars == <<segments, merged, mergePc>>

\* a call of saveSrt
saveVars == <<saveArg, srtContent, outFile, savePc>>

\* a call of formatTime
formatVars == <<timeArg, timeOut, formatPc>>

\* the region loop of one close handler
buildVars == <<vadRegions, taken, built, buildPc>>

\* the progress lines the server has parsed
progressVars == <<lastProgress, progressLog>>

\* the model a run or a request names
modelVars == <<modelName, model, exitCode, rejected, accepted>>

\* the conversion of one decoder stream
decodeVars == <<byteStream, received, pushedSamples>>

\* the output path and the skip check
pathVars == <<inputFile, srtFiles, runPc>>

\* the hybrid cache
cacheVars == <<now, lruCache, cacheFiles, lastReturn>>

moreVars == <<decodeVars, pathVars, cacheVars>>

fnVars == <<mergeVars, saveVars, formatVars, buildVars, progressVars,
            modelVars, moreVars>>

vars == <<srvVars, cliVars, fnVars>>

\* ------------------------------------------------------------ job lists
\* the status a new entry gets: 'pending' (server.js:66, 255, 547),
\* 'queued' in /api/translate (server.js:780)
InitialStatus(k, viaUpload) ==
  IF k = "tl" /\ ~viaUpload THEN "queued" ELSE "pending"

\* the status the job loop's cancel-all branch looks for
WaitingStatus(k) == IF k = "tr" THEN "pending" ELSE "queued"

NameOf(k, e) == IF k = "tr" THEN e.name ELSE e.filename

\* a list entry; id is the identity of the object, seen records that a
\* broadcast snapshot has shown it with a terminal status
Job(k, n, id, st) ==
  IF k = "tr" THEN [name |-> n, status |-> st, id |-> id, seen |-> FALSE]
  ELSE [filename |-> n, status |-> st, id |-> id, seen |-> FALSE]

\* Array.prototype.findIndex(x => x.name === filename); 0 stands for -1
FindIndex(k, list, n) ==
  IF \E i \in 1..Len(list) : NameOf(k, list[i]) = n
  THEN CHOOSE i \in 1..Len(list) :
         /\ NameOf(k, list[i]) = n
         /\ \A j \in 1..(i - 1) : NameOf(k, list[j]) # n
  ELSE 0

\* if (index !== -1) list[index].status = s
SetStatus(list, i, s) ==
  IF i = 0 THEN list ELSE [list EXCEPT ![i].status = s]

Terminal == {"completed", "error", "cancelled"}

Ids(list) == {list[i].id : i \in 1..Len(list)}

\* broadcast({ type: 'state_update' | 'translation_state', state })
Broadcast(list) ==
  [i \in 1..Len(list) |->
     IF list[i].status \in Terminal THEN [list[i] EXCEPT !.seen = TRUE]
     ELSE list[i]]

\* the entries of old that list no longer holds and no snapshot showed terminal
Dropped(old, list) ==
  {i \in 1..Len(old) : old[i].id \notin Ids(list) /\ ~old[i].seen}

\* ------------------------------------------------- the state of one kind
List(k) == IF k = "tr" THEN filesList ELSE translationQueue
Active(k) ==
  IF k = "tr" THEN activeTranscriptionProcesses
  ELSE activeTranslationProcesses
CancelAll(k) ==
  IF k = "tr" THEN cancelAllTranscription ELSE cancelAllTranslation

\* the part of the server state one handler run reads and writes
St(k) ==
  [list |-> List(k), active |-> Active(k), cancel |-> CancelAll(k),
   procs |-> procs, runs |-> runs, uploaded |-> uploadedFiles,
   dir |-> uploadsDir, kill |-> killTimers]

\* the handler's result becomes the next state; every handler broadcasts the
\* list after changing it, so observers see its terminal entries
Commit(k, s) ==
  /\ filesList' = IF k = "tr" THEN Broadcast(s.list) ELSE filesList
  /\ translationQueue' = IF k = "tl" THEN Broadcast(s.list) ELSE translationQueue
  /\ activeTranscriptionProcesses' =
       IF k = "tr" THEN s.active ELSE activeTranscriptionProcesses
  /\ activeTranslationProcesses' =
       IF k = "tl" THEN s.active ELSE activeTranslationProcesses
  /\ cancelAllTranscription' =
       IF k = "tr" THEN s.cancel ELSE cancelAllTranscription
  /\ cancelAllTranslation' =
       IF k = "tl" THEN s.cancel ELSE cancelAllTranslation
  /\ procs' = s.procs
  /\ runs' = s.runs
  /\ uploadedFiles' = s.uploaded
  /\ uploadsDir' = s.dir
  /\ killTimers' = s.kill
  /\ lost' = (lost \/ Dropped(List(k), s.list) # {})


\* ------------------------------------------------------- child processes
\* spawnDetached + activeXProcesses.set(child.pid, child).  A spawn that
\* fails leaves pid undefined (key 0) and makes node emit 'error', then
\* 'close' with a nonzero code.
NewProc(k, n, origin, idx, jid, ok, pid) ==
  [kind |-> k, name |-> n, origin |-> origin, idx |-> idx, jid |-> jid,
   pid |-> IF ok THEN pid ELSE 0,
   phase |-> IF ok THEN "running" ELSE "failed",
   code |-> 0, lsn |-> TRUE, terms |-> 0, completes |-> 0,
   sigs |-> <<>>, stopped |-> FALSE]

Spawn(s, k, n, origin, idx, jid, ok) ==
  LET pid == Len(s.procs) + 1 IN
  [s EXCEPT !.procs = Append(@, NewProc(k, n, origin, idx, jid, ok, pid)),
            !.active = @ \cup {IF ok THEN pid ELSE 0}]

\* "mark processing", broadcast file_start / translation_start, spawn
StartJob(s, k, n, origin, idx, jid, ok) ==
  Spawn([s EXCEPT !.list = SetStatus(@, FindIndex(k, @, n), "processing")],
        k, n, origin, idx, jid, ok)

\* broadcast of file_complete / translation_complete (complete = TRUE) or
\* file_error / translation_error carrying the job's filename
Note(s, p, complete) ==
  [s EXCEPT !.procs[p].terms = @ + 1,
            !.procs[p].completes = @ + (IF complete THEN 1 ELSE 0)]

\* if (uploadedFiles.has(filePath)) { delete; cleanupUploadedFiles([filePath]) }
CleanupOne(s, path) ==
  IF path \in s.uploaded
  THEN [s EXCEPT !.uploaded = @ \ {path}, !.dir = @ \ {path}]
  ELSE s

\* cleanupUploadedFilesHandler: unlink every tracked upload, clear the set
CleanupUploadedFilesHandler(s) ==
  [s EXCEPT !.dir = @ \ s.uploaded, !.uploaded = {}]

\* the 'close' listener of a child: upload variant and handleClose
CloseHandler(s, p) ==
  LET q == s.procs[p]
      done == q.code = 0
      s1 == [s EXCEPT !.list = SetStatus(@, FindIndex(q.kind, @, q.name),
                                         IF done THEN "completed" ELSE "error")]
      s2 == Note(s1, p, done)
      s3 == [s2 EXCEPT !.active = @ \ {q.pid}]
  IN IF q.origin = 0 THEN CleanupOne(s3, <<q.kind, q.name>>) ELSE s3

\* one 'error' listener of a child
ErrorHandler(s, p) ==
  LET q == s.procs[p]
      s1 == [s EXCEPT !.list = SetStatus(@, FindIndex(q.kind, @, q.name), "error")]
      s2 == Note(s1, p, FALSE)
  IN [s2 EXCEPT !.active = @ \ {q.pid}]

\* the listeners an 'error' event runs, in registration order
ErrorListeners(s, p) ==
  LET q == s.procs[p] IN
  IF q.origin = 0
  THEN IF q.kind = "tr"
       THEN ErrorHandler(ErrorHandler(s, p), p)
       ELSE CleanupOne(ErrorHandler(s, p), <<q.kind, q.name>>)
  ELSE LET s1 == IF q.kind = "tr" THEN ErrorHandler(s, p) ELSE s
       IN IF q.lsn THEN ErrorHandler(s1, p) ELSE s1

\* ---------------------------------------------------------- the job loop
RECURSIVE RunLoop(_, _, _, _, _)

\* after the loop: cleanupUploadedFilesHandler and all_complete in
\* /api/start, only the response in /api/translate
Finish(s, k, r) ==
  LET t == IF k = "tr" THEN CleanupUploadedFilesHandler(s) ELSE s IN
  [t EXCEPT !.runs[r].st = "done"]

\* the cancel-all branch: every waiting entry of the list becomes 'error'
CancelBranch(s, k) ==
  [s EXCEPT !.list =
     [x \in DOMAIN s.list |->
        IF s.list[x].status = WaitingStatus(k)
        THEN [s.list[x] EXCEPT !.status = "error"] ELSE s.list[x]]]

AwaitCloseNoAwait(s, k, r, j, ok) ==
  RunLoop([s EXCEPT !.runs[r].i = j, !.runs[r].pid = Len(s.procs)],
          k, r, j + 1, ok)

\* await new Promise(resolve => ...): the loop stops until handleClose or
\* handleError of the child it just spawned resolves
AwaitClose(s, k, r, j, ok) ==
  [s EXCEPT !.runs[r].i = j, !.runs[r].pid = Len(s.procs)]

\* for (const file of files) { ... } from file i on, up to the next await
RunLoop(s, k, r, i, ok) ==
  LET files == s.runs[r].files IN
  IF i > Len(files) THEN Finish(s, k, r)
  ELSE IF s.cancel THEN Finish(CancelBranch(s, k), k, r)
  ELSE IF k = "tl" /\ FindIndex(k, s.list, files[i]) = 0
       THEN RunLoop(s, k, r, i + 1, ok)
  ELSE AwaitClose(StartJob(s, k, files[i], r, i, s.runs[r].jid0 + i - 1, ok),
                  k, r, i, ok)

\* resolve() in handleClose / handleError: the loop that awaits child p goes
\* on with its next file in the same turn of the event loop
Resume(s, p, ok) ==
  LET q == s.procs[p]
      r == q.origin
  IN IF r # 0 /\ s.runs[r].st = "await" /\ s.runs[r].pid = p
     THEN RunLoop(s, q.kind, r, s.runs[r].i + 1, ok)
     ELSE s

\* ------------------------------------------------- process termination
\* tryKillProcessTree(proc): nothing without a pid; taskkill /T /F on win32;
\* otherwise SIGTERM to the group now and SIGKILL from a timer 2000 ms later.
\* A signal reaches the child only while it has not exited.
Deliver(ps, pid, sig) ==
  IF ps[pid].phase = "running"
  THEN [ps EXCEPT ![pid].sigs = Append(@, sig)] ELSE ps

TryKillProcessTree(s, pid) ==
  IF pid = 0 THEN s
  ELSE IF platform = "win32"
       THEN [s EXCEPT !.procs = Deliver(@, pid, "TASKKILL")]
       ELSE [s EXCEPT !.procs = Deliver(@, pid, "SIGTERM"),
                      !.kill = @ \cup {pid}]

\* a stop that signalled every running child, whatever its kind
KillEvery(s, pids) ==
  [s EXCEPT !.procs = [p \in DOMAIN @ |->
                         IF @[p].phase = "running"
                         THEN [@[p] EXCEPT !.sigs = Append(@, "SIGTERM")]
                         ELSE @[p]]]

RECURSIVE KillAll(_, _)
KillAll(s, pids) ==
  IF pids = {} THEN s
  ELSE LET pid == CHOOSE x \in pids : TRUE
       IN KillAll(TryKillProcessTree(s, pid), pids \ {pid})

\* ------------------------------------------------------------ the server
SrvInit ==
  /\ filesList = <<>>
  /\ translationQueue = <<>>
  /\ cancelAllTranscription = FALSE
  /\ cancelAllTranslation = FALSE
  /\ activeTranscriptionProcesses = {}
  /\ activeTranslationProcesses = {}
  /\ uploadedFiles = {}
  /\ uploadsDir = {}
  /\ procs = <<>>
  /\ runs = <<>>
  /\ uploadTimers = <<>>
  /\ killTimers = {}
  /\ nextJid = 1
  /\ nRequests = 0
  /\ lost = FALSE

\* the command-line program before main() runs
CliInit(sc) ==
  /\ script = sc
  /\ cliPc = "idle"
  /\ cliN = 0
  /\ cliFile = 0
  /\ jobs = <<>>
  /\ cancelTranscription = FALSE
  /\ activeFfmpegProcess = 0
  /\ graceTimers = <<>>
  /\ nSignals = 0

\* no call of mergeSegments is under way
NoMerge == segments = <<>> /\ merged = <<>> /\ mergePc = "idle"

\* no call of saveSrt is under way
NoSave ==
  saveArg = <<>> /\ srtContent = <<>> /\ outFile = <<>> /\ savePc = "idle"

\* no call of formatTime is under way
NoFormat ==
  /\ timeArg = [sec |-> 0, ticks |-> 0, err |-> 0]
  /\ timeOut = <<>>
  /\ formatPc = "idle"

\* the close handler has not reached its region loop
NoBuild ==
  vadRegions = <<>> /\ taken = <<>> /\ built = <<>> /\ buildPc = "idle"

\* `let lastProgress = -1` of every child to come (server.js:603); nothing
\* broadcast yet
NoProgress ==
  /\ lastProgress = [p \in 1..MaxProcs |-> -1]
  /\ progressLog = [n \in Names |-> <<>>]

\* the program was started with --model senseVoice and has loaded it; no
\* /api/start was answered yet
NoModel ==
  /\ modelName = "senseVoice"
  /\ model = "senseVoice"
  /\ exitCode = -1
  /\ rejected = 0
  /\ accepted = {}

\* no decoder stream is being converted
NoDecode == byteStream = <<>> /\ received = <<>> /\ pushedSamples = <<>>

\* no run over a media file is under way
NoPath ==
  /\ inputFile = [dir |-> "media", name |-> <<>>, uploaded |-> FALSE]
  /\ srtFiles = {}
  /\ runPc = "idle"

\* the cache is empty and was never read
NoCache ==
  /\ now = 0
  /\ lruCache = [has |-> FALSE, written |-> 0, start |-> 0, ttl |-> 0]
  /\ cacheFiles = [has |-> FALSE, written |-> 0, timestamp |-> 0, ttl |-> 0]
  /\ lastReturn = [hit |-> FALSE, written |-> 0, at |-> 0, ttl |-> 0]

NoMore == NoDecode /\ NoPath /\ NoCache

Init ==
  /\ SrvInit /\ CliInit("cli") /\ NoMerge /\ NoSave /\ NoFormat
  /\ NoBuild /\ NoProgress /\ NoModel /\ NoMore

\* node reports a failed spawn with process.nextTick: the 'error' event of the
\* child is dispatched before the event loop takes any other callback
NoTick == \A p \in DOMAIN procs : procs[p].phase # "failed"

\* POST /api/start (k = "tr") and POST /api/translate (k = "tl"), from the
\* list assignment to the first await of the loop
StartAccepted(k, files) ==
  /\ NoTick
  /\ nRequests < MaxRequests
  /\ \E ok \in BOOLEAN :
       LET r == Len(runs) + 1
           list == [i \in 1..Len(files) |->
                      Job(k, files[i], nextJid + i - 1, InitialStatus(k, FALSE))]
           s0 == [St(k) EXCEPT
                    !.list = list, !.cancel = FALSE,
                    !.runs = Append(@, [kind |-> k, files |-> files, i |-> 0,
                                        pid |-> 0, st |-> "await",
                                        jid0 |-> nextJid, cut |-> 0,
                                        cleared |-> FALSE])]
           s1 == RunLoop(s0, k, r, 1, ok)
       IN /\ Len(s1.procs) <= MaxProcs
          /\ Commit(k, s1)
  /\ nextJid' = nextJid + Len(files)
  /\ nRequests' = nRequests + 1
  /\ UNCHANGED <<cliVars, uploadTimers>>

\* the same request, its model being one the server knows
StartRequest(k, files) == StartAccepted(k, files) /\ UNCHANGED fnVars

\* POST /api/upload (k = "tr") and POST /api/upload-srt (k = "tl"): the file
\* is on disk, the entry is pushed, the start is deferred by 100 ms
UploadRequest(k, n) ==
  /\ NoTick
  /\ nRequests < MaxRequests
  /\ Commit(k, [St(k) EXCEPT
                  !.uploaded = @ \cup {<<k, n>>},
                  !.dir = @ \cup {<<k, n>>},
                  !.list = Append(@, Job(k, n, nextJid, InitialStatus(k, TRUE)))])
  /\ uploadTimers' = Append(uploadTimers, [kind |-> k, name |-> n, jid |-> nextJid])
  /\ nextJid' = nextJid + 1
  /\ nRequests' = nRequests + 1
  /\ UNCHANGED <<cliVars, fnVars>>

\* the deferred start of an upload: timers of equal delay fire in order
UploadTimerFire ==
  /\ NoTick
  /\ uploadTimers # <<>>
  /\ Len(procs) < MaxProcs
  /\ LET t == Head(uploadTimers) IN
     \E ok \in BOOLEAN :
       Commit(t.kind, StartJob(St(t.kind), t.kind, t.name, 0, 0, t.jid, ok))
  /\ uploadTimers' = Tail(uploadTimers)
  /\ UNCHANGED <<cliVars, fnVars, nextJid, nRequests>>

\* the child ends: with any code if no signal reached it, killed otherwise.
\* A SIGKILL timer left for it can only fail with ESRCH, which the handler
\* swallows, so the timer is dropped here.
ProcExit(p, c) ==
  /\ p \in DOMAIN procs
  /\ procs[p].phase = "running"
  /\ c = 0 => procs[p].sigs = <<>>
  /\ procs' = [procs EXCEPT ![p].phase = "exited", ![p].code = c]
  /\ killTimers' = killTimers \ {p}
  /\ UNCHANGED <<cliVars, fnVars, filesList, translationQueue, cancelAllTranscription,
                 cancelAllTranslation, activeTranscriptionProcesses,
                 activeTranslationProcesses, uploadedFiles, uploadsDir, runs,
                 uploadTimers, nextJid,
                 nRequests, lost>>

\* 'error' of a child that could not be spawned
ChildError(p) ==
  /\ p \in DOMAIN procs
  /\ procs[p].phase = "failed"
  /\ LET k == procs[p].kind
         s1 == ErrorListeners(St(k), p)
         s2 == [s1 EXCEPT !.procs[p].phase = "errored", !.procs[p].code = 1,
                          !.procs[p].lsn = (procs[p].origin = 0)]
     IN \E ok \in BOOLEAN :
          LET s3 == IF procs[p].lsn THEN Resume(s2, p, ok) ELSE s2
          IN /\ Len(s3.procs) <= MaxProcs
             /\ Commit(k, s3)
  /\ UNCHANGED <<cliVars, fnVars, uploadTimers, nextJid, nRequests>>

\* 'close' of a child, with the code it ended with
ChildClose(p) ==
  /\ NoTick
  /\ p \in DOMAIN procs
  /\ procs[p].phase \in {"exited", "errored"}
  /\ LET k == procs[p].kind
         s1 == IF procs[p].lsn THEN CloseHandler(St(k), p) ELSE St(k)
         s2 == [s1 EXCEPT !.procs[p].phase = "closed",
                          !.procs[p].lsn = (procs[p].origin = 0)]
     IN \E ok \in BOOLEAN :
          LET s3 == IF procs[p].lsn THEN Resume(s2, p, ok) ELSE s2
          IN /\ Len(s3.procs) <= MaxProcs
             /\ Commit(k, s3)
  /\ UNCHANGED <<cliVars, fnVars, uploadTimers, nextJid, nRequests>>

\* the first file of run r whose list entry is still waiting (0: none)
FirstWaiting(list, run) ==
  LET w == {i \in 1..Len(run.files) :
              \E j \in 1..Len(list) :
                 /\ list[j].id = run.jid0 + i - 1
                 /\ list[j].status \in {"pending", "queued"}}
  IN IF w = {} THEN 0 ELSE CHOOSE i \in w : \A i2 \in w : i <= i2

\* handleStopTranscription / handleStopTranslation.  stopped and cut record
\* for later reference which children were in flight and which entries of
\* each run were still waiting when the stop was handled.
HandleStop(k) ==
  /\ NoTick
  /\ List(k) # <<>> \/ Active(k) # {}
       \/ \E r \in DOMAIN runs : runs[r].kind = k /\ runs[r].st = "await"
  /\ LET s0 == St(k)
         hit == {p \in DOMAIN procs : procs[p].kind = k /\ procs[p].pid # 0
                                       /\ procs[p].pid \in s0.active}
         s1 == KillAll([s0 EXCEPT !.cancel = TRUE], s0.active)
         s2 == [s1 EXCEPT
                  !.active = {}, !.list = <<>>,
                  !.procs = [p \in DOMAIN s1.procs |->
                               IF p \in hit
                               THEN [s1.procs[p] EXCEPT !.stopped = TRUE]
                               ELSE s1.procs[p]],
                  !.runs = [r \in DOMAIN s1.runs |->
                              IF s1.runs[r].kind = k /\ s1.runs[r].cut = 0
                              THEN [s1.runs[r] EXCEPT
                                      !.cut = FirstWaiting(s0.list, s1.runs[r])]
                              ELSE s1.runs[r]]]
     IN Commit(k, s2)
  /\ UNCHANGED <<cliVars, fnVars, uploadTimers, nextJid, nRequests>>

\* the escalation timer of tryKillProcessTree
KillTimerFire(pid) ==
  /\ NoTick
  /\ pid \in killTimers
  /\ procs' = Deliver(procs, pid, "SIGKILL")
  /\ killTimers' = killTimers \ {pid}
  /\ UNCHANGED <<cliVars, fnVars, filesList, translationQueue, cancelAllTranscription,
                 cancelAllTranslation, activeTranscriptionProcesses,
                 activeTranslationProcesses, uploadedFiles, uploadsDir, runs,
                 uploadTimers, nextJid, nRequests, lost>>

\* ws 'clear_files' / 'clear_file_list' and 'clear_translation'
\* (cleared of a run records that its list was emptied while its loop waited)
HandleClear(k) ==
  /\ NoTick
  /\ List(k) # <<>> \/ CancelAll(k)
  /\ Commit(k, [St(k) EXCEPT
                  !.list = <<>>, !.cancel = FALSE,
                  !.runs = [r \in DOMAIN @ |->
                              IF @[r].kind = k /\ @[r].st = "await"
                              THEN [@[r] EXCEPT !.cleared = TRUE]
                              ELSE @[r]]])
  /\ UNCHANGED <<cliVars, fnVars, uploadTimers, nextJid, nRequests>>

\* ws 'request_state' / 'query_status'
HandleRequestState ==
  /\ NoTick
  /\ cancelAllTranscription \/ cancelAllTranslation
  /\ cancelAllTranscription' = FALSE
  /\ cancelAllTranslation' = FALSE
  /\ UNCHANGED <<cliVars, fnVars, filesList, translationQueue, activeTranscriptionProcesses,
                 activeTranslationProcesses, uploadedFiles, uploadsDir, procs,
                 runs, uploadTimers, killTimers, nextJid,
                 nRequests, lost>>

Next ==
  \/ \E k \in Kinds, files \in FileLists : StartRequest(k, files)
  \/ \E k \in Kinds, n \in Names : UploadRequest(k, n)
  \/ UploadTimerFire
  \/ \E p \in 1..MaxProcs, c \in {0, 1} : ProcExit(p, c)
  \/ \E p \in 1..MaxProcs : ChildError(p)
  \/ \E p \in 1..MaxProcs : ChildClose(p)
  \/ \E k \in Kinds : HandleStop(k)
  \/ \E pid \in 1..MaxProcs : KillTimerFire(pid)
  \/ \E k \in Kinds : HandleClear(k)
  \/ HandleRequestState

Spec == Init /\ [][Next]_vars

\* ------------------------------------------------------ model selection
\* /api/start calls answered 400 that are followed
MaxRejects == 2

\* the keys of MODELS (modelConfig.js)
MODELS == {"senseVoice", "nemoCtc", "transducer"}

\* names every object inherits from Object.prototype: MODELS[name] is a
\* function, not undefined
Inherited == {"constructor"}

\* what a run or a request names: a model of the table, names the table
\* lacks, the empty string, and "absent" for no --model flag and for a body
\* without model
ModelNames == {"senseVoice", "nemoCtc", "whisper", "constructor", "", "absent"}

\* a check that lets every name pass
AnyModel == ModelNames

\* const validModels = [...] of /api/start
validModels == {"senseVoice", "nemoCtc", "transducer"}

\* getModel(modelName): the entry, or "threw".  An inherited name gets past
\* `if (!m)`.
getModel(name) ==
  IF name \in MODELS THEN name
  ELSE IF name \in Inherited THEN "inherited"
  ELSE "threw"

\* the top level of gensrt.js / gensrt-cli.js before main(): the usage test,
\* getModel in its try, and the config literal, whose
\* path.join(model.modelDir, "silero_vad.onnx") throws a TypeError when
\* modelDir is undefined.  process.exit(1) and the uncaught exception both
\* end the program with code 1.
LoadModel ==
  /\ cliPc = "idle"
  /\ model = "unset"
  /\ exitCode = -1
  /\ LET m == IF modelName = "" THEN "usage" ELSE getModel(modelName) IN
     IF m \in MODELS
     THEN /\ model' = m
          /\ UNCHANGED <<cliPc, exitCode>>
     ELSE /\ model' = IF m = "inherited" THEN m ELSE model
          /\ exitCode' = 1
          /\ cliPc' = "exited"
  /\ UNCHANGED <<moreVars, srvVars, mergeVars, saveVars, formatVars, buildVars,
                 progressVars, script, cliN, cliFile, jobs,
                 cancelTranscription, activeFfmpegProcess, graceTimers,
                 nSignals, modelName, rejected, accepted>>

\* POST /api/start with body.model = name (server.js:523-552)
ApiStart(name, files) ==
  LET named == IF name = "absent" THEN "senseVoice" ELSE name IN
  IF named \notin validModels
  THEN /\ rejected < MaxRejects
       /\ rejected' = rejected + 1
       /\ UNCHANGED <<moreVars, srvVars, cliVars, mergeVars, saveVars, formatVars,
                      buildVars, progressVars, modelName, model, exitCode,
                      accepted>>
  ELSE /\ StartAccepted("tr", files)
       /\ accepted' = accepted \cup {named}
       /\ UNCHANGED <<moreVars, mergeVars, saveVars, formatVars, buildVars,
                      progressVars, modelName, model, exitCode, rejected>>

\* gensrt.js started with any model name
InitModel ==
  /\ SrvInit /\ CliInit("srv")
  /\ NoMerge /\ NoSave /\ NoFormat /\ NoBuild /\ NoProgress /\ NoMore
  /\ modelName \in ModelNames
  /\ model = "unset"
  /\ exitCode = -1
  /\ rejected = 0
  /\ accepted = {}

\* ---------------------------------------------- progress of a transcriber
\* progress messages kept per filename
MaxProgress == 2

\* a chunk of the child's stdout: the percents of the "Progress: N% | x/ys"
\* lines in it, in order.  gensrt.js prints min(100, round(processed /
\* duration * 100)) once a second and 100 at the decoder's close, so the
\* percents never decrease.
StdoutChunks == {<<>>, <<0>>, <<50>>, <<100>>, <<0, 50>>, <<50, 100>>}

\* s.match(/Progress:\s*(\d+)%.../): the first line that matches, -1: none
Match(chunk) == IF chunk = <<>> THEN -1 ELSE Head(chunk)

\* transcriber.stdout.on('data') of child p (server.js:120-150, 618-650):
\* the progress is broadcast under the child's filename if it differs from
\* the child's lastProgress
ChildStdout(p, chunk) ==
  /\ NoTick
  /\ p \in DOMAIN procs
  /\ procs[p].kind = "tr"
  /\ procs[p].phase \in {"running", "exited"}
  /\ Match(chunk) >= lastProgress[p]
  /\ LET progress == Match(chunk)
         filename == procs[p].name
     IN IF progress # -1 /\ progress # lastProgress[p]
        THEN /\ Len(progressLog[filename]) < MaxProgress
             /\ lastProgress' = [lastProgress EXCEPT ![p] = progress]
             /\ progressLog' = [progressLog EXCEPT ![filename] = Append(@, progress)]
        ELSE UNCHANGED progressVars
  /\ UNCHANGED <<moreVars, srvVars, cliVars, mergeVars, saveVars, formatVars, buildVars,
                 modelVars>>

\* the transcription side of the server with the output of its children
NextProgress ==
  \/ \E files \in FileLists : StartRequest("tr", files)
  \/ \E n \in Names : UploadRequest("tr", n)
  \/ UploadTimerFire
  \/ \E p \in 1..MaxProcs, c \in {0, 1} : ProcExit(p, c)
  \/ \E p \in 1..MaxProcs : ChildError(p)
  \/ \E p \in 1..MaxProcs : ChildClose(p)
  \/ \E p \in 1..MaxProcs, chunk \in StdoutChunks : ChildStdout(p, chunk)

SpecProgress == Init /\ [][NextProgress]_vars

\* --------------------------------------------- the command-line pipeline
\* processFile up to `await getDuration`: recognizer, vad and buffer exist, no
\* decoder yet.  size, pushed and popped describe the circular buffer, queue
\* the regions the detector holds (numbered in the order it produced them),
\* regs the regions dequeued so far, open the recognition streams not yet
\* released.  cancelled, fedAfter, recAfter, chunkFailed, spawnFailed,
\* graceAlive, badPop, lastClean, fedLate, earlyPop, maxOpen, recThrew and
\* peak record the job's history for later reference.
NewJob ==
  [ff |-> "none", code |-> 0, killed |-> FALSE, sigs |-> <<>>,
   promise |-> "pending", size |-> 0, pushed |-> 0, popped |-> 0,
   fed |-> 0, queue |-> <<>>, regs |-> <<>>, flushes |-> 0, open |-> 0,
   chunks |-> 0, saving |-> FALSE, srt |-> FALSE, frees |-> 0,
   aborted |-> FALSE,
   cancelled |-> FALSE, fedAfter |-> 0, recAfter |-> 0,
   chunkFailed |-> FALSE, spawnFailed |-> FALSE, graceAlive |-> FALSE,
   badPop |-> FALSE, lastClean |-> TRUE, fedLate |-> FALSE,
   earlyPop |-> FALSE, maxOpen |-> 0, recThrew |-> FALSE, peak |-> 0]

\* buffer.push(float32): n samples are appended
Push(job, n) ==
  [job EXCEPT !.size = @ + n, !.pushed = @ + n,
              !.peak = IF job.size + n > @ THEN job.size + n ELSE @]

\* buffer.pop(n): n samples leave the front
Pop(job, n) ==
  [job EXCEPT !.size = @ - n, !.popped = @ + n,
              !.badPop = @ \/ job.size < n]

\* vad.acceptWaveform(frame)
AcceptWaveform(job) ==
  [job EXCEPT !.fed = @ + 1,
              !.fedAfter = @ + (IF job.cancelled THEN 1 ELSE 0),
              !.fedLate = @ \/ job.flushes > 0]

MoreThanAWindow(job) == job.size > WindowSize

\* the condition of the while loop: buffer.size() >= windowSize
AWindowLeft(job) == job.size >= WindowSize

\* one turn of the loop: get, pop, vad.acceptWaveform
Window(job) ==
  IF AWindowLeft(job) THEN AcceptWaveform(Pop(job, WindowSize)) ELSE job

\* n turns, the first half of them before the second; the loop is over as
\* soon as its condition fails
RECURSIVE Turns(_, _)
Turns(job, n) ==
  IF n = 0 THEN job
  ELSE IF n = 1 THEN Window(job)
  ELSE LET half == Turns(job, n \div 2)
       IN IF AWindowLeft(half) THEN Turns(half, n - (n \div 2)) ELSE half

\* while (buffer.size() >= windowSize) { get; pop; vad.acceptWaveform }: a
\* turn takes windowSize samples, so the loop is over within
\* size / windowSize + 1 turns
Windowing(job) == Turns(job, (job.size \div WindowSize) + 1)

\* the detector queues one more region
Enqueue(job) ==
  [job EXCEPT !.queue = Append(@, Len(job.queue) + Len(job.regs) + 1)]

FlushSkipped(job, trailing) == job

\* vad.flush(): trailing tells whether speech was in progress
Flush(job, trailing) ==
  LET f == [job EXCEPT !.flushes = @ + 1] IN
  IF trailing = 1 THEN Enqueue(f) ELSE f

RecognizeRegionNoFinally(job, throws) ==
  LET j1 == [job EXCEPT !.regs = Append(@, Head(job.queue)),
                        !.queue = Tail(@),
                        !.earlyPop = @ \/ job.flushes = 0,
                        !.recAfter = @ + (IF job.cancelled THEN 1 ELSE 0)]
      j2 == [j1 EXCEPT !.open = @ + 1,
                       !.maxOpen = IF j1.open + 1 > @ THEN j1.open + 1 ELSE @]
  IN [j2 EXCEPT !.open = IF throws THEN @ ELSE @ - 1,
                !.recThrew = @ \/ throws]

\* one turn of the region loop: front, pop, createStream, recognition inside
\* try, safeFree(stream) inside finally
RecognizeRegion(job, throws) ==
  LET j1 == [job EXCEPT !.regs = Append(@, Head(job.queue)),
                        !.queue = Tail(@),
                        !.earlyPop = @ \/ job.flushes = 0,
                        !.recAfter = @ + (IF job.cancelled THEN 1 ELSE 0)]
      j2 == [j1 EXCEPT !.open = @ + 1,
                       !.maxOpen = IF j1.open + 1 > @ THEN j1.open + 1 ELSE @]
  IN [j2 EXCEPT !.open = @ - 1, !.recThrew = @ \/ throws]

RECURSIVE Drain(_, _, _)
RECURSIVE DrainCaught(_, _, _)
DrainCaught(job, thrown, turn) ==
  IF job.queue = <<>> THEN job
  ELSE DrainCaught(RecognizeRegion(job, turn = thrown), thrown, turn + 1)

\* while (!vad.isEmpty()) { ... }: an exception of turn number thrown leaves
\* the loop for the handler's catch
Drain(job, thrown, turn) ==
  IF job.queue = <<>> THEN job
  ELSE IF turn = thrown
       THEN [RecognizeRegion(job, TRUE) EXCEPT !.aborted = TRUE]
       ELSE Drain(RecognizeRegion(job, FALSE), thrown, turn + 1)

\* the part of the program state main() and the job promises share
Cli == [pc |-> cliPc, file |-> cliFile, jobs |-> jobs]

CommitCli(c) ==
  /\ cliPc' = c.pc
  /\ cliFile' = c.file
  /\ jobs' = c.jobs

\* for (const file of filesToProcess): main() enters processFile for file i,
\* or leaves the loop
Advance(c, i) ==
  IF i > cliN THEN [c EXCEPT !.pc = "done"]
  ELSE [c EXCEPT !.pc = "run", !.file = i, !.jobs = Append(@, NewJob)]

\* resolve() / reject(): only the first settles the promise; main() then
\* sleeps 100 ms (gensrt-cli.js, after a success) or goes to the next file
Settle(c, j, how) ==
  IF c.jobs[j].promise # "pending" THEN c
  ELSE LET c1 == [c EXCEPT !.jobs[j].promise = how] IN
       IF how = "resolved" /\ script = "cli"
       THEN [c1 EXCEPT !.pc = "sleep"]
       ELSE Advance(c1, j + 1)

\* safeFree(vad); safeFree(recognizer); safeFree(buffer)
FreeAll(c, j) == [c EXCEPT !.jobs[j].frees = @ + 1]

\* ffmpeg.kill(sig): the signal is sent, and killed becomes true, while the
\* child's handle exists; it reaches the decoder only if that still runs
Kill(js, j, sig) ==
  IF js[j].ff \in {"running", "exited"}
  THEN [js EXCEPT ![j].killed = TRUE,
                  ![j].sigs = IF js[j].ff = "running" THEN Append(@, sig) ELSE @]
  ELSE js

\* if (ffmpeg && !ffmpeg.killed) ffmpeg.kill('SIGTERM')
KillOnce(js, j, sig) == IF js[j].killed THEN js ELSE Kill(js, j, sig)

\* the same for the decoder: its 'error' comes before any other callback
NoCliTick == \A j \in DOMAIN jobs : jobs[j].ff # "failed"

InitCli ==
  /\ SrvInit /\ (\E sc \in Scripts : CliInit(sc))
  /\ NoMerge /\ NoSave /\ NoFormat /\ NoBuild /\ NoProgress /\ NoModel /\ NoMore

\* main(): getAudioFiles found n files
CliMain(n) ==
  /\ cliPc = "idle"
  /\ cliN' = n
  /\ IF n = 0
     THEN CommitCli([Cli EXCEPT !.pc = "done"])
     ELSE CommitCli([pc |-> "run", file |-> 1, jobs |-> <<NewJob>>])
  /\ UNCHANGED <<srvVars, fnVars, script, cancelTranscription, activeFfmpegProcess,
                 graceTimers, nSignals>>

\* getDuration settled: the Promise executor spawns the decoder.  how is
\* "ok", "failed" (node reports the failure with 'error') or "threw"
CliSpawn(how) ==
  /\ NoCliTick
  /\ cliPc = "run"
  /\ jobs[cliFile].ff = "none"
  /\ LET j == cliFile IN
     IF how = "threw"
     THEN /\ CommitCli(Settle(FreeAll([Cli EXCEPT !.jobs[j].ff = "closed",
                                                  !.jobs[j].spawnFailed = TRUE],
                                      j), j, "rejected"))
          /\ UNCHANGED activeFfmpegProcess
     ELSE /\ CommitCli([Cli EXCEPT
                          !.jobs[j].ff = IF how = "ok" THEN "running" ELSE "failed",
                          !.jobs[j].spawnFailed = (how # "ok")])
          /\ activeFfmpegProcess' = IF script = "cli" THEN j ELSE 0
  /\ UNCHANGED <<srvVars, fnVars, script, cliN, cancelTranscription, graceTimers,
                 nSignals>>

\* the decoder ends: with any code if no signal reached it, killed otherwise
FfmpegExit(j, c) ==
  /\ cliPc # "exited"
  /\ j \in DOMAIN jobs
  /\ jobs[j].ff = "running"
  /\ c = 0 => jobs[j].sigs = <<>>
  /\ jobs' = [jobs EXCEPT ![j].ff = "exited", ![j].code = c]
  /\ UNCHANGED <<srvVars, fnVars, script, cliPc, cliN, cliFile, cancelTranscription,
                 activeFfmpegProcess, graceTimers, nSignals>>

\* ffmpeg.stdout.on('data'): region tells whether the detector queued a
\* region while it took the windows, throws where handling the chunk failed:
\* "no", "push" (before the samples are in the buffer) or "accept" (the
\* detector refuses the first window)
CliChunk(j, bytes, region, throws) ==
  /\ NoCliTick
  /\ cliPc # "exited"
  /\ j \in DOMAIN jobs
  /\ jobs[j].ff \in {"running", "exited"}
  /\ LET c0 == [Cli EXCEPT !.jobs[j].chunks = @ + 1]
         sampleCount == bytes \div 2
         pushed == Push(c0.jobs[j], sampleCount)
         failed == IF throws = "push" THEN c0.jobs[j]
                   ELSE [Pop(pushed, WindowSize) EXCEPT !.lastClean = FALSE]
         fedAll == [Windowing(pushed) EXCEPT !.lastClean = TRUE]
     IN IF script = "cli" /\ cancelTranscription
        THEN /\ throws = "no" /\ region = 0
             /\ CommitCli([c0 EXCEPT !.jobs = KillOnce(@, j, "SIGTERM")])
        ELSE IF throws # "no"
        THEN /\ region = 0
             /\ throws = "accept" => pushed.size >= WindowSize
             /\ IF script = "cli"
                THEN CommitCli(Settle([c0 EXCEPT
                                         !.jobs[j] = [failed EXCEPT
                                                        !.chunkFailed = TRUE]],
                                      j, "rejected"))
                ELSE CommitCli([c0 EXCEPT !.pc = "exited"])
        ELSE /\ region = 1 => (fedAll.fed > jobs[j].fed
                                /\ Len(jobs[j].queue) < MaxRegions)
             /\ CommitCli([c0 EXCEPT
                             !.jobs[j] = IF region = 1 THEN Enqueue(fedAll)
                                         ELSE fedAll])
  /\ UNCHANGED <<srvVars, fnVars, script, cliN, cancelTranscription,
                 activeFfmpegProcess, graceTimers, nSignals>>

\* ffmpeg.on('error'): the decoder could not be spawned
FfmpegError(j) ==
  /\ cliPc # "exited"
  /\ j \in DOMAIN jobs
  /\ jobs[j].ff = "failed"
  /\ CommitCli(Settle(FreeAll([Cli EXCEPT !.jobs[j].ff = "errored",
                                          !.jobs[j].code = 1], j),
                      j, "rejected"))
  /\ activeFfmpegProcess' = IF script = "cli" THEN 0 ELSE activeFfmpegProcess
  /\ UNCHANGED <<srvVars, fnVars, script, cliN, cancelTranscription, graceTimers,
                 nSignals>>

\* ffmpeg.on('close') up to `await saveSrt`: flush tells whether vad.flush
\* queued a trailing region, thrown which turn of the region loop threw
\* (0: none)
FfmpegClose(j, flush, thrown) ==
  /\ NoCliTick
  /\ cliPc # "exited"
  /\ j \in DOMAIN jobs
  /\ jobs[j].ff \in {"exited", "errored"}
  /\ LET c0 == [Cli EXCEPT !.jobs[j].ff = "closed"]
         flushed == Flush(c0.jobs[j], flush)
         drained == Drain(flushed, thrown, 1)
         c1 == [c0 EXCEPT !.jobs[j] = drained]
     IN IF jobs[j].code # 0
        THEN /\ flush = 0 /\ thrown = 0
             /\ CommitCli(Settle(FreeAll(c0, j), j, "rejected"))
        ELSE /\ flush = 1 => Len(jobs[j].queue) < MaxRegions
             /\ thrown <= Len(flushed.queue)
             /\ IF drained.aborted
                THEN CommitCli(FreeAll(Settle(c1, j, "rejected"), j))
                ELSE CommitCli([c1 EXCEPT !.jobs[j].saving = TRUE])
  /\ activeFfmpegProcess' = IF script = "cli" THEN 0 ELSE activeFfmpegProcess
  /\ UNCHANGED <<srvVars, fnVars, script, cliN, cancelTranscription, graceTimers,
                 nSignals>>

\* saveSrt settles: the file is written and the job resolves, or the write
\* failed and the job rejects; the finally block frees
CliSaveDone(j, ok) ==
  /\ NoCliTick
  /\ cliPc # "exited"
  /\ j \in DOMAIN jobs
  /\ jobs[j].saving
  /\ LET c0 == [Cli EXCEPT !.jobs[j].saving = FALSE, !.jobs[j].srt = ok]
     IN CommitCli(FreeAll(Settle(c0, j, IF ok THEN "resolved" ELSE "rejected"), j))
  /\ UNCHANGED <<srvVars, fnVars, script, cliN, cancelTranscription,
                 activeFfmpegProcess, graceTimers, nSignals>>

\* await new Promise((r) => setTimeout(r, 100)) is over
CliSleepDone ==
  /\ NoCliTick
  /\ cliPc = "sleep"
  /\ CommitCli(Advance(Cli, cliFile + 1))
  /\ UNCHANGED <<srvVars, fnVars, script, cliN, cancelTranscription,
                 activeFfmpegProcess, graceTimers, nSignals>>

\* process.on('SIGINT') / process.on('SIGTERM') of gensrt-cli.js; gensrt.js
\* installs no handler and dies of the signal.  A job is in progress while
\* its promise is pending and its decoder has not closed.
CliSignal(sig) ==
  /\ NoCliTick
  /\ cliPc \notin {"idle", "exited"}
  /\ nSignals < MaxSignals
  /\ nSignals' = nSignals + 1
  /\ IF script = "srv"
     THEN /\ cliPc' = "exited"
          /\ UNCHANGED <<jobs, cancelTranscription, graceTimers>>
     ELSE /\ cancelTranscription' = TRUE
          /\ LET a == activeFfmpegProcess
                 js1 == IF a # 0 THEN KillOnce(jobs, a, "SIGTERM") ELSE jobs
             IN jobs' = [j \in DOMAIN js1 |->
                           IF js1[j].promise = "pending" /\ js1[j].ff # "closed"
                           THEN [js1[j] EXCEPT !.cancelled = TRUE] ELSE js1[j]]
          /\ graceTimers' = Append(graceTimers, [kill |-> activeFfmpegProcess # 0])
          /\ cliPc' = cliPc
  /\ UNCHANGED <<srvVars, fnVars, script, cliN, cliFile, activeFfmpegProcess>>

\* the 1000 ms timers of one signal fire together: the SIGKILL check, if the
\* handler armed it, then process.exit(0)
CliGraceFire ==
  /\ NoCliTick
  /\ cliPc # "exited"
  /\ graceTimers # <<>>
  /\ LET t == Head(graceTimers)
         a == activeFfmpegProcess
         js1 == IF t.kill /\ a # 0 THEN KillOnce(jobs, a, "SIGKILL") ELSE jobs
     IN jobs' = [j \in DOMAIN js1 |->
                   [js1[j] EXCEPT !.graceAlive =
                      js1[j].ff = "running" /\ js1[j].sigs # <<>>]]
  /\ graceTimers' = Tail(graceTimers)
  /\ cliPc' = "exited"
  /\ UNCHANGED <<srvVars, fnVars, script, cliN, cliFile, cancelTranscription,
                 activeFfmpegProcess, nSignals>>

\* the start of the server's transcription runs and of the command-line
\* program, under any model name
NextModel ==
  \/ LoadModel
  \/ \E n \in 0..MaxFiles : model \in MODELS /\ CliMain(n)
  \/ \E name \in ModelNames, files \in FileLists : ApiStart(name, files)
  \/ \E p \in 1..MaxProcs, c \in {0, 1} : ProcExit(p, c)
  \/ \E p \in 1..MaxProcs : ChildError(p)
  \/ \E p \in 1..MaxProcs : ChildClose(p)
  \/ HandleStop("tr")

SpecModel == InitModel /\ [][NextModel]_vars

\* the chunks the decoder of job j has delivered so far
Delivered(j) == IF j \in DOMAIN jobs THEN jobs[j].chunks ELSE 0

NextCli ==
  \/ \E n \in 0..MaxFiles : CliMain(n)
  \/ \E how \in {"ok", "failed", "threw"} : CliSpawn(how)
  \/ \E j \in 1..MaxFiles, c \in {0, 1} : FfmpegExit(j, c)
  \/ \E j \in 1..MaxFiles, bytes \in SmallChunks, region \in {0, 1},
        throws \in {"no", "push", "accept"} :
        Delivered(j) < MaxChunks /\ CliChunk(j, bytes, region, throws)
  \/ \E j \in 1..MaxFiles : FfmpegError(j)
  \/ \E j \in 1..MaxFiles, flush \in {0, 1}, thrown \in 0..MaxRegions :
        FfmpegClose(j, flush, thrown)
  \/ \E j \in 1..MaxFiles, ok \in BOOLEAN : CliSaveDone(j, ok)
  \/ CliSleepDone
  \/ \E sig \in {"SIGINT", "SIGTERM"} : CliSignal(sig)
  \/ CliGraceFire

SpecCli == InitCli /\ [][NextCli]_vars

\* one file's pipeline from spawn to settlement, without signals, over every
\* chunk length
NextPipe ==
  \/ CliMain(1)
  \/ \E how \in {"ok", "failed", "threw"} : CliSpawn(how)
  \/ \E c \in {0, 1} : FfmpegExit(1, c)
  \/ \E bytes \in ChunkBytes, region \in {0, 1},
        throws \in {"no", "push", "accept"} :
        Delivered(1) < MaxPipeChunks /\ CliChunk(1, bytes, region, throws)
  \/ FfmpegError(1)
  \/ \E flush \in {0, 1}, thrown \in 0..MaxRegions : FfmpegClose(1, flush, thrown)
  \/ \E ok \in BOOLEAN : CliSaveDone(1, ok)
  \/ CliSleepDone

SpecPipe == InitCli /\ [][NextPipe]_vars

\* --------------------------------------------------------------------------
\* gensrt.js: mergeSegments
\* --------------------------------------------------------------------------

\* the defaults of the parameters maxDuration = 15 and maxPause = 0.5, in
\* tenths of a second
maxDuration == 150
maxPause == 5

\* new Segment(start, duration, text); a text is the sequence of its
\* characters
Segment(start, duration, text) ==
  [start |-> start, duration |-> duration, text |-> text]

\* get end()
End(seg) == seg.start + seg.duration

MergeableAnyPause(current, next) ==
  LET pause == next.start - End(current)
  IN current.duration + next.duration <= maxDuration /\ pause < maxPause

\* the condition of the if inside the loop
Mergeable(current, next) ==
  LET pause == next.start - End(current)
  IN /\ pause >= 0
     /\ current.duration + next.duration <= maxDuration
     /\ pause < maxPause

\* the for loop from index i on, with the loop's merged and current
RECURSIVE MergeLoop(_, _, _, _)
MergeLoop(segs, i, out, current) ==
  IF i > Len(segs) THEN Append(out, current)
  ELSE LET next == segs[i]
       IN IF Mergeable(current, next)
          THEN MergeLoop(segs, i + 1, out,
                 [current EXCEPT !.duration = End(next) - current.start,
                                 !.text = @ \o <<" ">> \o next.text])
          ELSE MergeLoop(segs, i + 1, Append(out, current),
                 Segment(next.start, next.duration, next.text))

mergeFirstPair(segs) ==
  IF Len(segs) >= 2 /\ Mergeable(segs[1], segs[2])
  THEN <<[segs[1] EXCEPT !.duration = End(segs[2]) - segs[1].start,
                         !.text = @ \o <<" ">> \o segs[2].text]>>
       \o SubSeq(segs, 3, Len(segs))
  ELSE segs

mergeSegments(segs) ==
  IF Len(segs) = 0 THEN <<>>
  ELSE MergeLoop(segs, 2, <<>>,
         Segment(segs[1].start, segs[1].duration, segs[1].text))

Cues == { Segment(s, d, TextOf(d)) : s \in Starts, d \in Durations }

\* the arrays of at most n cues in the order of their starts, as saveSrt's
\* sort leaves them
RECURSIVE SortedCues(_)
SortedCues(n) ==
  IF n = 0 THEN {<<>>}
  ELSE LET shorter == SortedCues(n - 1)
       IN shorter \cup
          UNION { { Append(l, c) :
                      c \in {x \in Cues : l = <<>> \/ x.start >= l[Len(l)].start} } :
                  l \in {x \in shorter : Len(x) = n - 1} }

InitMerge ==
  /\ SrvInit /\ CliInit("cli")
  /\ segments \in SortedCues(MaxCues)
  /\ merged = <<>>
  /\ mergePc = "call"
  /\ NoSave /\ NoFormat /\ NoBuild /\ NoProgress /\ NoModel /\ NoMore

\* const merged = mergeSegments(segments)
MergeCall ==
  /\ mergePc = "call"
  /\ merged' = mergeSegments(segments)
  /\ mergePc' = "return"
  /\ UNCHANGED <<moreVars, srvVars, cliVars, saveVars, formatVars, buildVars,
                 progressVars, modelVars, segments>>

NextMerge == MergeCall

SpecMerge == InitMerge /\ [][NextMerge]_vars

\* cues in any order, among them cues of no duration
AnyStarts == {0, 20, 23, 72, 144}
AnyDurations == {0, 20, 70}
AnyCues == { Segment(s, d, TextOf(d)) : s \in AnyStarts, d \in AnyDurations }

\* the arrays of at most n of these cues, in every order
AnyOrder(n) == UNION { [1..k -> AnyCues] : k \in 0..n }

InitAgain ==
  /\ SrvInit /\ CliInit("cli")
  /\ segments \in AnyOrder(MaxCues)
  /\ merged = <<>>
  /\ mergePc = "call"
  /\ NoSave /\ NoFormat /\ NoBuild /\ NoProgress /\ NoModel /\ NoMore

\* mergeSegments(merged): the array returned is merged once more
MergeAgain ==
  /\ mergePc = "return"
  /\ segments' = merged
  /\ merged' = mergeSegments(merged)
  /\ mergePc' = "again"
  /\ UNCHANGED <<moreVars, srvVars, cliVars, saveVars, formatVars, buildVars,
                 progressVars, modelVars>>

NextAgain == MergeCall \/ MergeAgain

SpecAgain == InitAgain /\ [][NextAgain]_vars
\* --------------------------------------------------------------------------
\* gensrt.js: formatTime, Segment.toString, saveSrt
\* --------------------------------------------------------------------------

\* A number t is held as a double: its whole seconds, the ten-thousandths of
\* a second of its fraction, and the side on which the double lies of that
\* decimal value (-1 below, 0 exact, 1 above).  3661.234 is the double
\* 3661.23399999999992..., that is [sec 3661, ticks 2340, err -1].
Double(sec, ticks, err) == [sec |-> sec, ticks |-> ticks, err |-> err]

Digit == <<"0", "1", "2", "3", "4", "5", "6", "7", "8", "9">>

\* n.toString() of an integer n >= 0
RECURSIVE NumberToString(_)
NumberToString(n) ==
  IF n < 10 THEN <<Digit[n + 1]>>
  ELSE NumberToString(n \div 10) \o <<Digit[(n % 10) + 1]>>

\* str.padStart(n, "0")
RECURSIVE PadStart(_, _)
PadStart(str, n) == IF Len(str) >= n THEN str ELSE PadStart(<<"0">> \o str, n)

\* Math.floor((t % 1) * 1000)
FloorMs(t) ==
  IF t.err < 0 /\ t.ticks % 10 = 0 THEN (t.ticks \div 10) - 1
  ELSE t.ticks \div 10

\* Math.round((t % 1) * 1000)
RoundMs(t) ==
  IF t.ticks % 10 > 5 \/ (t.ticks % 10 = 5 /\ t.err >= 0)
  THEN (t.ticks \div 10) + 1
  ELSE t.ticks \div 10

formatTimeRounded(t) ==
  LET intPart == t.sec
      ms == RoundMs(t)
      h == PadStart(NumberToString(intPart \div 3600), 2)
      m == PadStart(NumberToString((intPart % 3600) \div 60), 2)
      sc == PadStart(NumberToString(intPart % 60), 2)
  IN h \o <<":">> \o m \o <<":">> \o sc \o <<",">> \o PadStart(NumberToString(ms), 3)

formatTime(t) ==
  LET intPart == t.sec
      ms == FloorMs(t)
      h == PadStart(NumberToString(intPart \div 3600), 2)
      m == PadStart(NumberToString((intPart % 3600) \div 60), 2)
      sc == PadStart(NumberToString(intPart % 60), 2)
  IN h \o <<":">> \o m \o <<":">> \o sc \o <<",">> \o PadStart(NumberToString(ms), 3)

\* the double of a cue time given in tenths of a second: whole seconds are
\* exact, the others lie on the side err of the decimal value
AsDouble(tenths, err) ==
  Double(tenths \div 10, (tenths % 10) * 1000,
         IF tenths % 10 = 0 THEN 0 ELSE err)

\* Segment.toString()
toString(seg, err) ==
  formatTime(AsDouble(seg.start, err)) \o <<" ", "-", "-", ">", " ">>
    \o formatTime(AsDouble(End(seg), err)) \o <<"\n">> \o seg.text

RECURSIVE JoinEach(_, _)
JoinEach(strs, sep) ==
  IF Len(strs) = 0 THEN <<>>
  ELSE strs[1] \o sep \o JoinEach(Tail(strs), sep)

\* strs.join(sep)
RECURSIVE Join(_, _)
Join(strs, sep) ==
  IF Len(strs) = 0 THEN <<>>
  ELSE IF Len(strs) = 1 THEN strs[1]
  ELSE strs[1] \o sep \o Join(Tail(strs), sep)

Unsorted(segs) == segs

\* segments.sort((a, b) => a.start - b.start): a stable sort
RECURSIVE SortByStart(_)
SortByStart(segs) ==
  IF Len(segs) <= 1 THEN segs
  ELSE LET front == SortByStart(SubSeq(segs, 1, Len(segs) - 1))
           last == segs[Len(segs)]
           keep == Cardinality({i \in DOMAIN front : front[i].start <= last.start})
       IN SubSeq(front, 1, keep) \o <<last>> \o SubSeq(front, keep + 1, Len(front))

\* merged.map((s, i) => `${i + 1}\n${s.toString()}`).join("\n\n"), "" for no
\* cue
Serialize(cues, err) ==
  IF Len(cues) > 0
  THEN Join([i \in 1..Len(cues) |-> NumberToString(i) \o <<"\n">> \o toString(cues[i], err)],
            <<"\n", "\n">>)
  ELSE <<>>

\* the three programs that carry a saveSrt: gensrt.js, gensrt-cli.js
\* (README.md) and transcriber.js (logger.js)
SaveScripts == Scripts \cup {"transcriber"}

\* the cues saveSrt is given
SaveStarts == {0, 23, 26}
SaveDurations == {5, 20}
SaveCues == { Segment(s, d, TextOf(d)) : s \in SaveStarts, d \in SaveDurations }
SaveOrders(n) == UNION { [1..k -> SaveCues] : k \in 0..n }

InitSave ==
  /\ SrvInit /\ (\E sc \in SaveScripts : CliInit(sc))
  /\ NoMerge /\ NoFormat /\ NoBuild /\ NoProgress /\ NoModel /\ NoMore
  /\ saveArg \in SaveOrders(MaxCues)
  /\ srtContent = <<>>
  /\ outFile = <<>>
  /\ savePc = "call"

\* saveSrt(segments, outPath): ok tells whether the directory could be made
\* and the file written.  transcriber.js returns at once when there is no
\* segment.
SaveSrt(ok, err) ==
  /\ savePc = "call"
  /\ IF script = "transcriber" /\ Len(saveArg) = 0
     THEN /\ ok
          /\ savePc' = "return"
          /\ UNCHANGED <<segments, merged, srtContent, outFile>>
     ELSE LET sorted == SortByStart(saveArg)
              result == mergeSegments(sorted)
              content == Serialize(result, err)
          IN /\ segments' = sorted
             /\ merged' = result
             /\ srtContent' = content
             /\ outFile' = IF ok THEN <<content>> ELSE <<>>
             /\ savePc' = IF ok THEN "return" ELSE "threw"
  /\ UNCHANGED <<moreVars, srvVars, cliVars, formatVars, buildVars, progressVars,
                 modelVars, saveArg, mergePc>>

NextSave == \E ok \in BOOLEAN, err \in {-1, 0, 1} : SaveSrt(ok, err)

SpecSave == InitSave /\ [][NextSave]_vars

\* the numbers formatTime is given: around the minute and the hour, beyond a
\* day, and fractions at, just under and just over a millisecond and a second
FormatSeconds == {0, 59, 60, 3599, 3600, 3661, 86399, 360000}
FormatTicks == {0, 5, 10, 2340, 2345, 9990, 9995, 9999}
Doubles ==
  { Double(sc, tk, e) : sc \in FormatSeconds, tk \in FormatTicks, e \in {-1, 0, 1} }
    \ { Double(sc, 0, -1) : sc \in FormatSeconds }

InitFormat ==
  /\ SrvInit /\ CliInit("cli")
  /\ NoMerge /\ NoSave /\ NoBuild /\ NoProgress /\ NoModel /\ NoMore
  /\ timeArg \in Doubles
  /\ timeOut = <<>>
  /\ formatPc = "call"

\* formatTime(t)
FormatCall ==
  /\ formatPc = "call"
  /\ timeOut' = formatTime(timeArg)
  /\ formatPc' = "return"
  /\ UNCHANGED <<moreVars, srvVars, cliVars, mergeVars, saveVars, buildVars,
                 progressVars, modelVars, timeArg>>

NextFormat == FormatCall

SpecFormat == InitFormat /\ [][NextFormat]_vars

\* --------------------------------------------------------------------------
\* gensrt.js: the region loop of ffmpeg.on("close"), from vad.flush() to the
\* call of saveSrt
\* seg.start and seg.samples.length, in samples: whole tenths of a second
RegionStarts == {0, 16000, 36800}
RegionLengths == {8000, 32000}

\* result.text as the recognizer returns it: "", blank, a word, a word
\* between blanks
RecognizedTexts == {<<>>, <<" ">>, <<"A">>, <<" ", "B", " ">>}

\* recognizer.getResult(stream): no result, or a result with a text
Results ==
  {[has |-> FALSE, text |-> <<>>]}
    \cup {[has |-> TRUE, text |-> t] : t \in RecognizedTexts}

Regions ==
  [start : RegionStarts, length : RegionLengths, result : Results]

\* String.prototype.trim
RECURSIVE TrimStart(_)
TrimStart(str) ==
  IF str # <<>> /\ Head(str) = " " THEN TrimStart(Tail(str)) ELSE str

RECURSIVE TrimEnd(_)
TrimEnd(str) ==
  IF str # <<>> /\ str[Len(str)] = " "
  THEN TrimEnd(SubSeq(str, 1, Len(str) - 1)) ELSE str

Trim(str) == TrimEnd(TrimStart(str))

\* samples / config.vad.sampleRate, in tenths of a second
Seconds(samples) == (samples * 10) \div SampleRate

\* if (result && result.text): a missing result and the empty string are
\* falsy, every other string is truthy
HasText(result) == result.has /\ result.text # <<>>

\* the body of the loop after vad.pop(): the cue the region adds, if any
PushSegment(segs, seg) ==
  IF HasText(seg.result)
  THEN Append(segs, Segment(Seconds(seg.start), Seconds(seg.length),
                            Trim(seg.result.text)))
  ELSE segs

\* vad.flush() has run and left up to MaxRegions regions in the queue
InitBuild ==
  /\ SrvInit /\ CliInit("cli")
  /\ NoMerge /\ NoSave /\ NoFormat /\ NoProgress /\ NoModel /\ NoMore
  /\ vadRegions \in UNION {[1..n -> Regions] : n \in 0..MaxRegions}
  /\ taken = <<>>
  /\ built = <<>>
  /\ buildPc = "loop"

\* one turn of while (!vad.isEmpty())
RegionTurn ==
  /\ buildPc = "loop"
  /\ vadRegions # <<>>
  /\ vadRegions' = Tail(vadRegions)
  /\ taken' = Append(taken, Head(vadRegions))
  /\ built' = PushSegment(built, Head(vadRegions))
  /\ UNCHANGED <<moreVars, srvVars, cliVars, mergeVars, saveVars, formatVars,
                 progressVars, modelVars, buildPc>>

\* vad.isEmpty(): the loop ends and segments goes to saveSrt
LoopEnd ==
  /\ buildPc = "loop"
  /\ vadRegions = <<>>
  /\ buildPc' = "done"
  /\ UNCHANGED <<moreVars, srvVars, cliVars, mergeVars, saveVars, formatVars,
                 progressVars, modelVars, vadRegions, taken, built>>

NextBuild == RegionTurn \/ LoopEnd

SpecBuild == InitBuild /\ [][NextBuild]_vars

\* --------------------------------------------------------------------------
\* gensrt.js: the sample conversion of ffmpeg.stdout.on("data")
\* bytes of one decoder stream
MaxBytes == 4

\* byte values: enough to tell low byte from high byte and a negative
\* sample from a positive one
Bytes == {0, 1, 255}

\* chunk.readInt16LE(offset), offset counted from 0
ReadInt16LE(chunk, offset) ==
  LET u == chunk[offset + 1] + 256 * chunk[offset + 2]
  IN IF u >= 32768 THEN u - 65536 ELSE u

\* the Float32Array of a chunk: sampleCount = floor(chunk.length / 2) values
\* readInt16LE(i * 2) / 32768.0.  A sample is held as its numerator; the
\* division by a power of two is exact.
ToSamples(chunk) ==
  [i \in 1..(Len(chunk) \div 2) |-> ReadInt16LE(chunk, (i - 1) * 2)]

\* the decoder is about to write up to MaxBytes bytes
InitDecode ==
  /\ SrvInit /\ CliInit("srv")
  /\ NoMerge /\ NoSave /\ NoFormat /\ NoBuild /\ NoProgress /\ NoModel
  /\ NoPath /\ NoCache
  /\ byteStream \in UNION {[1..n -> Bytes] : n \in 0..MaxBytes}
  /\ received = <<>>
  /\ pushedSamples = <<>>

\* one 'data' event carrying the next n bytes: buffer.push(float32)
DataChunk(n) ==
  /\ n <= Len(byteStream)
  /\ LET chunk == SubSeq(byteStream, 1, n) IN
     /\ received' = received \o chunk
     /\ pushedSamples' = pushedSamples \o ToSamples(chunk)
  /\ byteStream' = SubSeq(byteStream, n + 1, Len(byteStream))
  /\ UNCHANGED <<srvVars, cliVars, mergeVars, saveVars, formatVars, buildVars,
                 progressVars, modelVars, pathVars, cacheVars>>

NextDecode == \E n \in 1..MaxBytes : DataChunk(n)

SpecDecode == InitDecode /\ [][NextDecode]_vars

\* --------------------------------------------------------------------------
\* gensrt.js: the path a job writes and the path the skip check examines
\* base names of media files, as sequences of characters
BaseNames ==
  {<<"a">>, <<"a", "b">>, <<"a", ".", "b">>, <<"a", ":", "b">>, <<"?">>}

\* the extension of the media file and of its subtitles
MediaExt == <<".", "m", "p", "4">>
SrtExt == <<".", "s", "r", "t">>

\* directories: "tmp" stands for a path that starts with /tmp/
Dirs == {"media", "tmp"}

\* the index of the last "." of a name, 0 if it has none
RECURSIVE LastDot(_)
LastDot(name) ==
  IF name = <<>> THEN 0
  ELSE IF name[Len(name)] = "." THEN Len(name)
  ELSE LastDot(SubSeq(name, 1, Len(name) - 1))

\* name.replace(/\.[^.]*$/, ext); /.[^.]*$/ of getAudioFiles matches the
\* same substring whenever the name has a "."
ReplaceExt(name, ext) ==
  IF LastDot(name) = 0 THEN name
  ELSE SubSeq(name, 1, LastDot(name) - 1) \o ext

\* baseName.replace(/[<>:"\/|?*\x00-\x1f]/g, "_")
Sanitize(name) ==
  [i \in DOMAIN name |-> IF name[i] \in {"<", ">", ":", "|", "?", "*"}
                         THEN "_" ELSE name[i]]

\* srtPath of getAudioFiles: the sibling of the media file
SrtPath(f) == [dir |-> f.dir, name |-> ReplaceExt(f.name, SrtExt)]

\* outPath of processFile.  gensrt.js and gensrt-cli.js sanitize the base
\* name and send uploads and /tmp files to /sdcard/Download; transcriber.js
\* writes the sibling.
OutPath(f) ==
  IF script = "transcriber" THEN SrtPath(f)
  ELSE [dir |-> IF f.dir = "tmp" \/ f.uploaded THEN "sdcard/Download"
                ELSE f.dir,
        name |-> Sanitize(ReplaceExt(f.name, <<>>)) \o SrtExt]

\* a media file without subtitles, handed to one of the three programs
InitRerun ==
  /\ SrvInit /\ (\E sc \in SaveScripts : CliInit(sc))
  /\ NoMerge /\ NoSave /\ NoFormat /\ NoBuild /\ NoProgress /\ NoModel
  /\ NoDecode /\ NoCache
  /\ inputFile \in [dir : Dirs, name : {b \o MediaExt : b \in BaseNames},
                     uploaded : BOOLEAN]
  /\ script = "transcriber" => ~inputFile.uploaded
  /\ srtFiles = {}
  /\ runPc = "idle"

\* the first run: getAudioFiles lists the file, processFile completes with
\* the given number of cues and saveSrt writes outPath (transcriber.js
\* writes nothing for zero cues)
FirstRun(cues) ==
  /\ runPc = "idle"
  /\ SrtPath(inputFile) \notin srtFiles
  /\ srtFiles' = IF script = "transcriber" /\ cues = 0 THEN srtFiles
                 ELSE srtFiles \cup {OutPath(inputFile)}
  /\ runPc' = "first"
  /\ UNCHANGED <<srvVars, cliVars, mergeVars, saveVars, formatVars, buildVars,
                 progressVars, modelVars, decodeVars, cacheVars, inputFile>>

\* the second run over the same input: getAudioFiles skips the file if its
\* sibling .srt is accessible, else the file is transcribed again
SecondRun ==
  /\ runPc = "first"
  /\ runPc' = IF SrtPath(inputFile) \in srtFiles THEN "skipped" ELSE "again"
  /\ UNCHANGED <<srvVars, cliVars, mergeVars, saveVars, formatVars, buildVars,
                 progressVars, modelVars, decodeVars, cacheVars, inputFile,
                 srtFiles>>

NextRerun == (\E cues \in {0, 1} : FirstRun(cues)) \/ SecondRun

SpecRerun == InitRerun /\ [][NextRerun]_vars

\* --------------------------------------------------------------------------
\* cache-optimization.js: the hybrid cache under the key "system_info".
\* Times are in units of 10 s.
\* the clock stops here
MaxClock == 8

\* cacheTTL of getCachedSystemInfo: 30 s
cacheTTL == 3

\* the ttl setInLRU falls back to: 1000 * 60 * 60 ms
defaultTtl == 360

\* lruCache.get(key) with allowStale: false: the entry is stale once its age
\* exceeds its ttl
LruFresh(c, t) == c.has /\ ~(t - c.start > c.ttl)

\* updateAgeOnGet: true: a hit restarts the entry's age
LruTouch(c, t) == [c EXCEPT !.start = t]

\* readCacheFile: the file is expired once Date.now() - timestamp > ttl
FileFresh(f, t) == f.has /\ ~(t - f.timestamp > f.ttl)

\* setInLRU(key, value, ttl): ttl || 1 hour
SetInLRU(written, t, ttl) ==
  [has |-> TRUE, written |-> written, start |-> t,
   ttl |-> IF ttl = 0 THEN defaultTtl ELSE ttl]

\* setInFileCache(key, value, ttl); a failed write leaves the file as it was
SetInFileCache(f, written, t, ttl, ok) ==
  IF ok THEN [has |-> TRUE, written |-> written, timestamp |-> t, ttl |-> ttl]
  ELSE f

\* an empty cache at time 0
InitCache ==
  /\ SrvInit /\ CliInit("srv")
  /\ NoMerge /\ NoSave /\ NoFormat /\ NoBuild /\ NoProgress /\ NoModel
  /\ NoDecode /\ NoPath /\ NoCache

\* ten seconds pass
Tick ==
  /\ now < MaxClock
  /\ now' = now + 1
  /\ UNCHANGED <<srvVars, cliVars, mergeVars, saveVars, formatVars, buildVars,
                 progressVars, modelVars, decodeVars, pathVars, lruCache,
                 cacheFiles, lastReturn>>

\* getCachedSystemInfo(): cachedQuery("system_info", ..., 30).  getFromCache
\* asks the LRU cache, then the file, promoting a file hit with
\* setInLRU(key, value); on a miss the snapshot is taken and stored with
\* setInCache.  lastReturn tells when the returned snapshot was taken.
GetCachedSystemInfo(ok) ==
  /\ IF LruFresh(lruCache, now)
     THEN /\ ok
          /\ lruCache' = LruTouch(lruCache, now)
          /\ lastReturn' = [hit |-> TRUE, written |-> lruCache.written,
                            at |-> now, ttl |-> cacheTTL]
          /\ UNCHANGED cacheFiles
     ELSE IF FileFresh(cacheFiles, now)
     THEN /\ ok
          /\ lruCache' = SetInLRU(cacheFiles.written, now, 0)
          /\ lastReturn' = [hit |-> TRUE, written |-> cacheFiles.written,
                            at |-> now, ttl |-> cacheTTL]
          /\ UNCHANGED cacheFiles
     ELSE /\ lruCache' = SetInLRU(now, now, cacheTTL)
          /\ cacheFiles' = SetInFileCache([cacheFiles EXCEPT !.has = FALSE],
                                          now, now, cacheTTL, ok)
          /\ lastReturn' = [hit |-> FALSE, written |-> now, at |-> now,
                            ttl |-> cacheTTL]
  /\ UNCHANGED <<srvVars, cliVars, mergeVars, saveVars, formatVars, buildVars,
                 progressVars, modelVars, decodeVars, pathVars, now>>

\* lruCache.delete(key), e.g. by eviction of the least recently used entry
LruEvict ==
  /\ lruCache.has
  /\ lruCache' = [lruCache EXCEPT !.has = FALSE]
  /\ UNCHANGED <<srvVars, cliVars, mergeVars, saveVars, formatVars, buildVars,
                 progressVars, modelVars, decodeVars, pathVars, now,
                 cacheFiles, lastReturn>>

NextCache == Tick \/ (\E ok \in BOOLEAN : GetCachedSystemInfo(ok)) \/ LruEvict

SpecCache == InitCache /\ [][NextCache]_vars

\* ------------------------------------------------------------ properties
Has(seq, x) == \E i \in DOMAIN seq : seq[i] = x

\* the status changes the job state machine allows; 'queued' is the name
\* /api/translate gives to pending
AllowedChange(a, b) ==
  \/ a = b
  \/ a \in {"pending", "queued"} /\ b \in {"processing", "cancelled"}
  \/ a = "processing" /\ b \in {"completed", "error", "cancelled"}

StepsAllowed(old, new) ==
  \A i \in DOMAIN old : \A j \in DOMAIN new :
     old[i].id = new[j].id => AllowedChange(old[i].status, new[j].status)

\* C1: in both job lists every change of an entry's status is one of
\* pending->processing, processing->completed, processing->error,
\* processing->cancelled, pending->cancelled.
C1_StatusTransitions ==
  [][/\ StepsAllowed(filesList, filesList')
     /\ StepsAllowed(translationQueue, translationQueue')]_vars

\* C2: every child spawned for a job gets exactly one terminal notification
\* (file_complete / file_error, translation_complete / translation_error):
\* never more than one, and one once its 'close' has been handled.
C2_ExactlyOneTerminal ==
  \A p \in DOMAIN procs :
     /\ procs[p].terms <= 1
     /\ procs[p].phase = "closed" => procs[p].terms = 1

\* C3: every entry placed in a job list is shown to observers with a terminal
\* status; in particular no entry leaves its list before a snapshot has shown
\* it completed, error or cancelled (an entry that left can never be shown).
C3_TerminalSeen == ~lost

Alive(k) == {p \in DOMAIN procs : procs[p].kind = k /\ procs[p].phase = "running"}

AliveOf(r) ==
  {p \in DOMAIN procs : procs[p].origin = r /\ procs[p].phase = "running"}

C5_NoStartAfterStop ==
  \A p \in DOMAIN procs :
     (procs[p].kind = "tr" /\ procs[p].origin # 0) =>
        LET cut == runs[procs[p].origin].cut IN
        cut = 0 \/ procs[p].idx < cut

\* C6: a job whose child was in flight when cancel-all was handled is never
\* afterwards reported completed (no file_complete / translation_complete).
C6_StoppedNeverCompleted ==
  \A p \in DOMAIN procs : procs[p].stopped => procs[p].completes = 0

\* C7: a decoder that was sent SIGTERM and is still alive when the grace
\* period elapses has been sent SIGKILL by then.
C7_Escalation ==
  \A j \in DOMAIN jobs : jobs[j].graceAlive => Has(jobs[j].sigs, "SIGKILL")

\* C8: an SRT file exists for a job only if its decoder closed with code 0,
\* was spawned, and the job's promise was not rejected by a chunk failure.
C8_SrtOnlyAfterCleanRun ==
  \A j \in DOMAIN jobs :
     jobs[j].srt =>
        /\ jobs[j].ff = "closed" /\ jobs[j].code = 0
        /\ ~jobs[j].spawnFailed
        /\ ~jobs[j].chunkFailed

\* C9: no SRT file is written for a job that was in progress when
\* cancellation was requested.
C9_NoSrtAfterCancel ==
  \A j \in DOMAIN jobs : jobs[j].cancelled => ~jobs[j].srt

\* C10: after cancellation is requested for a running job at most one more
\* window is fed to the detector and at most one more region is recognised.
C10_AtMostOneMore ==
  \A j \in DOMAIN jobs : jobs[j].fedAfter <= 1 /\ jobs[j].recAfter <= 1
\* the pipelines whose decoder was spawned and has not been closed yet
ActivePipelines == {j \in DOMAIN jobs : jobs[j].ff \in {"running", "exited"}}

\* C11: in the command-line program at most one decode pipeline is active at
\* any time: the next file's pipeline starts only after the previous file's
\* decoder has closed.
C11_OnePipeline == Cardinality(ActivePipelines) <= 1

\* C12: once cancelTranscription is set no decoder is spawned any more: no
\* step taken with the flag set brings a job's decoder into being.
C12_NoSpawnAfterCancel ==
  [][cancelTranscription =>
       \A j \in DOMAIN jobs' :
          jobs'[j].ff = "running" => (j \in DOMAIN jobs /\ jobs[j].ff # "none")]_vars

Started(e) == e.status \notin {"pending", "queued"}

ChildrenOf(r) == {p \in DOMAIN procs : procs[p].origin = r}

OthersKeep(old, new, jid) ==
  \A i \in DOMAIN old : \A j \in DOMAIN new :
     (old[i].id = new[j].id /\ old[i].id # jid) =>
        \/ new[j].status = old[i].status
        \/ (~Started(old[i]) /\ new[j].status = "processing")

\* C14: when a child ends in error (nonzero close or failed spawn) no other
\* job's status changes, except that the next waiting job may be started.
C14_ErrorIsLocal ==
  [][\A p \in DOMAIN procs :
        (/\ procs'[p].phase # procs[p].phase
         /\ procs'[p].phase \in {"errored", "closed"}
         /\ procs'[p].code # 0) =>
           /\ OthersKeep(filesList, filesList', procs[p].jid)
           /\ OthersKeep(translationQueue, translationQueue', procs[p].jid)]_vars
C16_BufferDrained ==
  \A j \in DOMAIN jobs :
     /\ jobs[j].lastClean => jobs[j].size < WindowSize
     /\ ~jobs[j].chunkFailed => jobs[j].popped = WindowSize * jobs[j].fed

\* two chunks have been handled, the second a full pipe read on a rest
C16_Witness ==
  \E j \in DOMAIN jobs :
     jobs[j].chunks = 2 /\ jobs[j].fed >= 64 /\ jobs[j].size > 0

\* C17: the buffer's size is the samples pushed minus the samples popped,
\* never negative, never above the capacity, and pop(512) is called only with
\* at least 512 samples in the buffer.
C17_BufferAccounting ==
  \A j \in DOMAIN jobs :
     /\ jobs[j].size = jobs[j].pushed - jobs[j].popped
     /\ jobs[j].size >= 0
     /\ jobs[j].peak <= Capacity
     /\ ~jobs[j].badPop

ClosedClean(j) ==
  jobs[j].ff = "closed" /\ jobs[j].code = 0 /\ ~jobs[j].spawnFailed

Fifo(regs) == \A i \in DOMAIN regs : regs[i] = i

FlushDiscipline(j) ==
  /\ ClosedClean(j) => jobs[j].flushes = 1
  /\ jobs[j].code # 0 => jobs[j].flushes = 0
  /\ ~jobs[j].fedLate
  /\ ~jobs[j].earlyPop
  /\ Fifo(jobs[j].regs)

C19_StreamReleased ==
  \A j \in DOMAIN jobs : jobs[j].open = 0 /\ jobs[j].maxOpen <= 1

\* the second region's recognition threw after the first returned
C19_Witness ==
  \E j \in DOMAIN jobs : jobs[j].recThrew /\ Len(jobs[j].regs) = 2
\* The greedy pass, cue by cue: the head of the group cue i falls in, and
\* whether cue i is absorbed into the group of the cue before it.
RECURSIVE GroupStart(_, _)
Absorbed(segs, i) ==
  /\ i > 1
  /\ LET s == GroupStart(segs, i - 1)
         pause == segs[i].start - End(segs[i - 1])
         soFar == IF s = i - 1 THEN segs[s].duration
                  ELSE End(segs[i - 1]) - segs[s].start
     IN 0 <= pause /\ pause < 5 /\ soFar + segs[i].duration <= 150

GroupStart(segs, i) ==
  IF Absorbed(segs, i) THEN GroupStart(segs, i - 1) ELSE i

GroupEnd(segs, s) ==
  CHOOSE e \in s..Len(segs) :
     /\ \A k \in (s + 1)..e : Absorbed(segs, k)
     /\ e = Len(segs) \/ ~Absorbed(segs, e + 1)

RECURSIVE JoinTexts(_, _, _)
JoinTexts(segs, s, e) ==
  IF s = e THEN segs[s].text
  ELSE JoinTexts(segs, s, e - 1) \o <<" ">> \o segs[e].text

GreedyPass(segs) ==
  LET heads == {i \in 1..Len(segs) : ~Absorbed(segs, i)}
      head(k) == CHOOSE h \in heads : Cardinality({x \in heads : x <= h}) = k
  IN [k \in 1..Cardinality(heads) |->
        LET s == head(k)
            e == GroupEnd(segs, s)
        IN [start |-> segs[s].start,
            duration |-> IF e = s THEN segs[s].duration
                         ELSE End(segs[e]) - segs[s].start,
            text |-> JoinTexts(segs, s, e)]]

\* C20: on every start-sorted cue list mergeSegments returns the result of the
\* single forward greedy pass (absorb the next cue iff 0 <= pause < 0.5 s and
\* the two durations add up to at most 15 s, else emit the current cue), and
\* it returns the two lists of the examples.
C20_GreedyMerge ==
  mergePc = "return" =>
     /\ merged = GreedyPass(segments)
     /\ segments = <<Segment(0, 20, <<"A">>), Segment(23, 10, <<"B">>)>>
           => merged = <<Segment(0, 33, <<"A", " ", "B">>)>>
     /\ segments = <<Segment(0, 20, <<"A">>), Segment(26, 10, <<"B">>)>>
           => merged = segments

\* the call returned for three cues: the second absorbed into the first, the
\* third overlapping the second
C20_Witness ==
  /\ mergePc = "return"
  /\ Len(segments) = 3 /\ Len(merged) = 2
  /\ merged[1].duration > segments[1].duration
  /\ segments[3].start < End(segments[2])
\* C21: mergeSegments is idempotent: merging the list it returned returns
\* the same cues (start, duration, text).
C21_MergeIdempotent == mergePc = "again" => merged = segments

\* a merged list was merged again in which a cue of 14.2 s is followed,
\* after a pause of 0.2 s, by a cue the duration limit kept apart
C21_Witness ==
  /\ mergePc = "again"
  /\ Len(segments) = 2
  /\ segments[1].duration = 142
  /\ segments[2].start = 144 /\ segments[2].duration = 20
\* C22 as stated: a save of zero cues has the empty string as content and
\* still writes the (empty) SRT file, without error.
C22_EmptyFileWritten ==
  (savePc = "return" /\ saveArg = <<>>) =>
     srtContent = <<>> /\ outFile = << <<>> >>

\* the lines of a string, split at "\n"
RECURSIVE Lines(_)
Lines(str) ==
  IF \A i \in DOMAIN str : str[i] # "\n" THEN <<str>>
  ELSE LET n == CHOOSE i \in DOMAIN str :
                   str[i] = "\n" /\ \A k \in 1..(i - 1) : str[k] # "\n"
       IN <<SubSeq(str, 1, n - 1)>> \o Lines(SubSeq(str, n + 1, Len(str)))

\* HH:MM:SS,mmm --> HH:MM:SS,mmm
IsTimeLine(line) ==
  /\ Len(line) = 29
  /\ SubSeq(line, 13, 17) = <<" ", "-", "-", ">", " ">>
  /\ \A i \in {3, 6, 20, 23} : line[i] = ":"
  /\ \A i \in {9, 26} : line[i] = ","

\* C25: for N >= 1 cues the content is N blocks, block i made of the line
\* i, a time line and the text of cue i, with one blank line between two
\* blocks and no newline after the last.
C25_Blocks ==
  (savePc = "return" /\ Len(merged) >= 1) =>
     LET lines == Lines(srtContent)
         N == Len(merged)
     IN /\ Len(lines) = 4 * N - 1
        /\ \A i \in 1..N :
              /\ lines[4 * i - 3] = <<Digit[i + 1]>>
              /\ IsTimeLine(lines[4 * i - 2])
              /\ lines[4 * i - 1] = merged[i].text
              /\ i < N => lines[4 * i] = <<>>
        /\ srtContent[Len(srtContent)] # "\n"
        /\ outFile = <<srtContent>>

\* a file of two blocks was written
C25_Witness == savePc = "return" /\ Len(merged) = 2 /\ outFile # <<>>

\* C28: whatever the order of the cues given to saveSrt, the cues merged and
\* written have non-decreasing starts.
C28_WrittenInOrder ==
  savePc = "return" =>
     /\ \A i, j \in DOMAIN merged : i < j => merged[i].start <= merged[j].start
     /\ \A i, j \in DOMAIN segments :
           i < j => segments[i].start <= segments[j].start

\* cues given in decreasing order of start were saved as several cues
C28_Witness ==
  /\ savePc = "return" /\ Len(saveArg) = 3
  /\ saveArg[1].start > saveArg[2].start /\ saveArg[2].start > saveArg[3].start
  /\ Len(merged) >= 2
\* C26 as stated: formatTime(t) is HH:MM:SS,mmm with the whole seconds split
\* into hours (not wrapped), minutes and seconds and
\* mmm = round((t - floor(t)) * 1000); formatTime(3661.234) is "01:01:01,234"
\* and formatTime(0) is "00:00:00,000".
C26_RoundedMs ==
  formatPc = "return" =>
     /\ timeOut =
          PadStart(NumberToString(timeArg.sec \div 3600), 2) \o <<":">>
            \o PadStart(NumberToString((timeArg.sec % 3600) \div 60), 2) \o <<":">>
            \o PadStart(NumberToString(timeArg.sec % 60), 2) \o <<",">>
            \o PadStart(NumberToString(RoundMs(timeArg)), 3)
     /\ timeArg = Double(3661, 2340, -1) =>
           timeOut = <<"0", "1", ":", "0", "1", ":", "0", "1", ",", "2", "3", "4">>
     /\ timeArg = Double(0, 0, 0) =>
           timeOut = <<"0", "0", ":", "0", "0", ":", "0", "0", ",", "0", "0", "0">>

\* the number a digit stands for, 10 for any other character
DigitValue(ch) ==
  IF \E d \in 0..9 : Digit[d + 1] = ch
  THEN CHOOSE d \in 0..9 : Digit[d + 1] = ch
  ELSE 10

\* C27: for t >= 0 the string ends in :MM:SS,mmm with MM and SS the minutes
\* and seconds of floor(t), both in 00..59, and exactly three digits of
\* milliseconds; formatTime(59.9995) is "00:00:59,999".
C27_FieldsInRange ==
  formatPc = "return" =>
     LET n == Len(timeOut)
         at(i) == DigitValue(timeOut[n - i])
     IN /\ n >= 12
        /\ timeOut[n - 3] = "," /\ timeOut[n - 6] = ":" /\ timeOut[n - 9] = ":"
        /\ \A i \in {0, 1, 2, 4, 5, 7, 8} : at(i) <= 9
        /\ 10 * at(8) + at(7) = (timeArg.sec % 3600) \div 60
        /\ 10 * at(5) + at(4) = timeArg.sec % 60
        /\ \A i \in 1..(n - 10) : DigitValue(timeOut[i]) <= 9
        /\ timeArg = Double(59, 9995, -1) =>
              timeOut = <<"0", "0", ":", "0", "0", ":", "5", "9", ",", "9", "9", "9">>

\* formatTime(59.9995) has returned
C27_Witness == formatPc = "return" /\ timeArg = Double(59, 9995, -1)
\* C23 as stated: a media file whose sibling .srt exists when the run starts
\* is not listed as a job, is never marked processing and gets no child
\* process.
C23_ExistingSkipped ==
  /\ \A r \in DOMAIN runs :
        runs[r].kind = "tr" =>
           \A i \in DOMAIN runs[r].files : runs[r].files[i] \notin SrtPresent
  /\ \A p \in DOMAIN procs :
        (procs[p].kind = "tr" /\ procs[p].origin # 0) =>
           procs[p].name \notin SrtPresent
\* the regions whose recognized text is neither absent nor empty
RECURSIVE WithText(_)
WithText(regs) ==
  IF regs = <<>> THEN <<>>
  ELSE IF Head(regs).result.has /\ Head(regs).result.text # <<>>
       THEN <<Head(regs)>> \o WithText(Tail(regs))
       ELSE WithText(Tail(regs))

\* C24 as stated: the cues handed to saveSrt are, in order, one for each
\* dequeued region whose text is neither absent nor empty, with start =
\* region.start / 16000 and duration = samples.length / 16000, and every one
\* of them has a non-empty text.
C24_CuePerRegion ==
  buildPc = "done" =>
     LET kept == WithText(taken) IN
     /\ Len(built) = Len(kept)
     /\ \A i \in DOMAIN built :
          /\ built[i].start = Seconds(kept[i].start)
          /\ built[i].duration = Seconds(kept[i].length)
          /\ built[i].text # <<>>
C30_UnknownModelRejected ==
  [][/\ modelName' \notin MODELS =>
          /\ jobs' = <<>>
          /\ model' \notin MODELS
          /\ cliPc' # "idle" => (cliPc' = "exited" /\ exitCode' = 1)
     /\ rejected' # rejected =>
          UNCHANGED <<filesList, cancelAllTranscription,
                      cancelAllTranslation, procs, runs,
                      activeTranscriptionProcesses>>
     /\ accepted' \subseteq MODELS]_vars

\* the program was started with --model constructor and has ended, and the
\* server has answered 400 to one request and started a child for another
C30_Witness ==
  /\ modelName = "constructor"
  /\ cliPc = "exited"
  /\ rejected = 1
  /\ accepted = {"nemoCtc"}
  /\ procs # <<>>
\* the keys the registry of kind k should hold: one for every child of the
\* kind that was spawned and has neither closed nor reported 'error'
Unclosed(k) ==
  {procs[p].pid : p \in {q \in DOMAIN procs :
                           /\ procs[q].kind = k
                           /\ procs[q].phase \in {"running", "exited", "failed"}}}

\* C31 as stated: the process registry of each kind holds a child exactly
\* while that child is spawned and not yet closed.
C31_RegistryExact == \A k \in Kinds : Active(k) = Unclosed(k)
\* the other kind
Other(k) == IF k = "tr" THEN "tl" ELSE "tr"

\* a step leaves the side of kind k as it was: its list, its registry, its
\* cancel flag, its runs, its children and the SIGKILL timers armed for them
SideKept(k) ==
  /\ List(k)' = List(k)
  /\ Active(k)' = Active(k)
  /\ CancelAll(k)' = CancelAll(k)
  /\ \A r \in DOMAIN runs : runs[r].kind = k => runs'[r] = runs[r]
  /\ \A p \in DOMAIN procs : procs[p].kind = k => procs'[p] = procs[p]
  /\ \A p \in DOMAIN procs :
        procs[p].kind = k => (p \in killTimers' <=> p \in killTimers)

\* C32: handling stop_transcription leaves the translation side unchanged
\* and signals no translation process; stop_translation likewise leaves the
\* transcription side unchanged.
C32_StopIsLocal ==
  [][\A k \in Kinds : HandleStop(k) => SideKept(Other(k))]_vars

\* transcription was stopped, its child signalled, while a translation child
\* runs on, unsignalled, with its job still queued
C32_Witness ==
  /\ cancelAllTranscription /\ ~cancelAllTranslation
  /\ translationQueue # <<>>
  /\ \E p \in DOMAIN procs :
        procs[p].kind = "tr" /\ procs[p].stopped /\ procs[p].sigs # <<>>
  /\ \E q \in DOMAIN procs :
        /\ procs[q].kind = "tl" /\ procs[q].phase = "running"
        /\ procs[q].sigs = <<>> /\ procs[q].pid \in activeTranslationProcesses
\* C33 as stated: the detector, recognizer and buffer of a job are released
\* exactly once on every sequence of decoder events: never twice, and once
\* by the time the decoder has closed and the job has settled.
C33_ReleasedOnce ==
  \A j \in DOMAIN jobs :
     /\ jobs[j].frees <= 1
     /\ (/\ cliPc # "exited"
         /\ jobs[j].ff = "closed"
         /\ ~jobs[j].saving
         /\ jobs[j].promise # "pending") => jobs[j].frees = 1
\* C34 as stated: the samples pushed so far are the little-endian int16
\* decoding of the concatenation of the bytes received so far, however the
\* stream was split into chunks.
C34_StreamDecoded == pushedSamples = ToSamples(received)
\* C35 as stated: after a job for a file completed, a second run over the
\* same input skips the file.
C35_SecondRunSkips == runPc # "again"
\* the jobs whose child is spawned, ends, errors or closes in a step
Touched ==
  {procs'[p].jid : p \in {q \in DOMAIN procs' :
                             \/ q \notin DOMAIN procs
                             \/ procs'[q].phase # procs[q].phase}}

\* every entry that was started (processing or terminal) and is not one of
\* the jobs in own has the status it had
StartedKeep(old, new, own) ==
  \A i \in DOMAIN old : \A j \in DOMAIN new :
     (old[i].id = new[j].id /\ old[i].id \notin own /\ Started(old[i])) =>
        new[j].status = old[i].status

\* C36 as stated: the status changes caused by one job's events (its start,
\* the error and the close of its child) touch that job's own entry only:
\* an entry of another job that is processing, completed or error keeps its
\* status, also when both entries carry the same file name.
C36_OwnEntryOnly ==
  [][Touched # {} =>
       /\ StartedKeep(filesList, filesList', Touched)
       /\ StartedKeep(translationQueue, translationQueue', Touched)]_vars
\* C37 as stated: no step deletes an uploaded file from the uploads
\* directory while a transcription child spawned for that upload is alive
\* and stays unclosed.
C37_UploadKeptWhileRead ==
  [][\A p \in DOMAIN procs :
        (/\ procs[p].kind = "tr"
         /\ procs[p].origin = 0
         /\ procs[p].phase \in {"running", "exited"}
         /\ procs'[p].phase \in {"running", "exited"}
         /\ <<"tr", procs[p].name>> \in uploadsDir) =>
           <<"tr", procs[p].name>> \in uploadsDir']_vars
\* C38 as stated: a value read from the cache was stored at most its ttl
\* earlier: getCachedSystemInfo never returns a snapshot taken more than 30 s
\* before the call.
C38_NeverPastTtl ==
  lastReturn.hit => lastReturn.at - lastReturn.written <= lastReturn.ttl
\* C39: for cues in the order of their starts with durations >= 0, no cue
\* that mergeSegments formed by absorbing further cues (its text holds the
\* " " of a join) lasts longer than maxDuration (15 s).
C39_MergedWithinMax ==
  mergePc = "return" =>
     \A k \in DOMAIN merged :
        (\E j \in DOMAIN merged[k].text : merged[k].text[j] = " ") =>
           merged[k].duration <= maxDuration
\* C40: once clear_translation has emptied the queue while an /api/translate
\* run waits for a child, that run spawns no translator for any of its
\* remaining files.
C40_ClearedRunSpawnsNone ==
  [][\A p \in DOMAIN procs' \ DOMAIN procs :
        (/\ procs'[p].kind = "tl"
         /\ procs'[p].origin \in DOMAIN runs) =>
           ~runs[procs'[p].origin].cleared]_vars
=============================================================================
